---- MODULE Spec2Model ----
(***************************************************************************)
(* Study_Buddy: submission lifecycle (JavaEditor.jsx, AdminPanel.jsx,      *)
(* services/firestore.js), the Gemini completion client and the parsing of *)
(* its answers (services/cursorAI.js), subject scores, topic analytics,    *)
(* the historical report and the practice cache.                           *)
(*                                                                         *)
(* The specifications of the module, each over its own variables:          *)
(*   Spec        - the four evaluation pipelines acting on the submission  *)
(*                 documents of one contest, one step per awaited call;    *)
(*   SpecApi     - one callGeminiAPI invocation, one step per candidate;   *)
(*   SpecWait    - the same invocation, one step per wait on the network;  *)
(*   SpecEval    - evaluateCodeSubmission on every answer;                 *)
(*   SpecExtract - the structured-response extraction on every text;       *)
(*   SpecScore   - publications of a subject score;                        *)
(*   SpecTopics  - concurrent calls of upsertTopicAnalytics;               *)
(*   SpecReport  - listStudentEvaluations over every contest content;      *)
(*   SpecCache   - generate / refresh of custom practice questions.        *)
(***************************************************************************)
EXTENDS Integers, Sequences, FiniteSets, TLC

VARIABLES
  \* ---- persistence store (firestore.js) ----
  subStatus,      \* submission id -> status field ("none": no document yet)
  subCode,        \* submission id -> code field
  subError,       \* submission id -> error field ("none": field absent)
  subEvaluatedAt, \* submission id -> evaluatedAt field present
  evalCount,      \* submission id -> number of documents in evaluations/
  \* ---- handler instances (one per UI handler) ----
  pc,             \* handler -> position in its code
  cur,            \* handler -> submissionRef.id / submission.id (0: none)
  caught,         \* handler -> message of the error being handled
  log,            \* handler -> events of the current run, in order
  callStatus,     \* handler -> stored status when evaluateCodeSubmission was called
  practice,       \* handler -> practiceQuestions of the report and the tasks created
  bulkItems,      \* data.submissions.length of the bulk upload being processed
  bulkIdx,        \* index of the bulk item being processed
  reevalRuns,     \* runs of handleEvaluateSubmission started so far
  \* ---- callGeminiAPI ----
  apiPc,          \* position of the call
  req,            \* the request (prompts, key, options)
  listing,        \* the answer of the listing request of listGeminiModels
  availableModels,\* result of listGeminiModels (null before/without discovery)
  modelsToTry,    \* ranked candidate list
  idx,            \* index of the next candidate
  lastError,      \* lastError variable of callGeminiAPI
  tried,          \* candidates a request was issued to, in order
  reasons,        \* failure message of each tried candidate, in order
  lastResp,       \* the answer of the last tried candidate
  outcome,        \* what the call returned or threw
  \* ---- evaluateCodeSubmission (cursorAI.js) ----
  evPc,           \* "ready", "returned" or "thrown"
  evResponse,     \* what callGeminiAPI gave: the text's form and the value it parses to
  evReport,       \* the report returned
  \* ---- subject scores (firestore.js) ----
  scDoc,          \* the document scores/{studentId}_{subjectId}
  scArgs,         \* contestEntries and mockScore of the marks form
  scCalls,        \* calls of upsertStudentSubjectScore so far
  scResult,       \* how each call ended, in order
  \* ---- topic analytics (firestore.js) ----
  taTopics,       \* topics field of topicAnalytics/{studentId}_{subjectId}
  taPc,           \* caller -> position in upsertTopicAnalytics
  taRead,         \* caller -> existingTopics, as its getDoc returned it
  taUpd,          \* caller -> topicUpdates of the call in progress
  taCalls,        \* calls of upsertTopicAnalytics started so far
  taBumps,        \* topic name -> completed calls that wrote a new entry for it
  \* ---- structured-response extraction (cursorAI.js) ----
  exText,         \* cleanedResponse: the characters of the generation text
  exPc,           \* "ready", "scanned" or "extracted"
  exSlice,        \* what findBalancedJSON returned
  exResult,       \* what the extraction parsed, or that it failed
  \* ---- historical report (firestore.js, App.jsx) ----
  rpStore,        \* submission id -> the submission document and its evaluations
  rpPc,           \* "ready", "loaded" or "listed"
  rpResult,       \* what listStudentEvaluations returned
  \* ---- custom Java practice (quizCache.js, JavaEditor.jsx) ----
  jpCache,        \* the localStorage entry java_custom_practice
  jpShown,        \* customQuestions: the questions on screen
  jpLast,         \* the last request: its parameters and where the questions came from
  jpCalls         \* calls of handleGenerateCustomQuestions so far

lifeVars == <<subStatus, subCode, subError, subEvaluatedAt, evalCount,
              pc, cur, caught, log, callStatus, practice, bulkItems,
              bulkIdx, reevalRuns>>
apiVars  == <<apiPc, req, listing, availableModels, modelsToTry, idx, lastError,
              tried, reasons, lastResp, outcome>>
evalVars == <<evPc, evResponse, evReport>>
scoreVars == <<scDoc, scArgs, scCalls, scResult>>
topicVars == <<taTopics, taPc, taRead, taUpd, taCalls, taBumps>>
extractVars == <<exText, exPc, exSlice, exResult>>
reportVars == <<rpStore, rpPc, rpResult>>
cacheVars == <<jpCache, jpShown, jpLast, jpCalls>>
vars == <<lifeVars, apiVars, evalVars, scoreVars, topicVars, extractVars,
         reportVars,
         cacheVars>>

\* the variables an action of one part leaves alone
notLife    == <<apiVars, evalVars, scoreVars, topicVars, extractVars,
               reportVars,
               cacheVars>>
notApi     == <<lifeVars, evalVars, scoreVars, topicVars, extractVars,
               reportVars,
               cacheVars>>
notEval    == <<lifeVars, apiVars, scoreVars, topicVars, extractVars,
               reportVars,
               cacheVars>>
notScore   == <<lifeVars, apiVars, evalVars, topicVars, extractVars,
               reportVars,
               cacheVars>>
notTopics  == <<lifeVars, apiVars, evalVars, scoreVars, extractVars,
               reportVars,
               cacheVars>>
notExtract == <<lifeVars, apiVars, evalVars, scoreVars, topicVars,
               reportVars,
               cacheVars>>
notReport == <<lifeVars, apiVars, evalVars, scoreVars, topicVars, extractVars,
               cacheVars>>
notCache == <<lifeVars, apiVars, evalVars, scoreVars, topicVars, extractVars, reportVars>>

----------------------------------------------------------------------------
(* Bounds *)

MaxLen   == 5      \* characters of a text given to findBalancedJSON
MaxPieces == 2     \* fragments a generation text is composed of
MaxReportSubs == 2 \* submissions of the contest the report is built from
MaxGenerates == 3  \* calls of handleGenerateCustomQuestions
MaxSubs  == 1      \* submission documents the contest may hold
MaxReevals == 1    \* runs of handleEvaluateSubmission
MaxBulk  == 2      \* entries in one bulk upload file
MaxEntries == 2    \* contest entries in one score publication
MaxPublishes == 2  \* calls of upsertStudentSubjectScore
MaxTopicCalls == 2 \* calls of upsertTopicAnalytics

SubIds == 1..MaxSubs

Min(a, b) == IF a <= b THEN a ELSE b

Max(a, b) == IF a >= b THEN a ELSE b

----------------------------------------------------------------------------
(* Submission documents *)

Statuses == {"pending", "submitted", "evaluating", "evaluated", "error"}

\* position of a status in pending < submitted < evaluating < {evaluated, error}
Rank(st) ==
  CASE st = "none"       -> 0
    [] st = "pending"    -> 1
    [] st = "submitted"  -> 2
    [] st = "evaluating" -> 3
    [] st = "evaluated"  -> 4
    [] st = "error"      -> 4

\* source text: sequences of characters, "s" standing for a whitespace character
Codes == {<<"a">>, <<"s", "a", "s">>}

IsSpace(c) == c = "s"

RECURSIVE TrimStart(_)
TrimStart(str) ==
  IF str # <<>> /\ IsSpace(Head(str)) THEN TrimStart(Tail(str)) ELSE str

RECURSIVE TrimEnd(_)
TrimEnd(str) ==
  IF str # <<>> /\ IsSpace(str[Len(str)])
    THEN TrimEnd(SubSeq(str, 1, Len(str) - 1))
    ELSE str

Trim(str) == TrimEnd(TrimStart(str))

Procs == {"student", "upload", "bulk", "reeval"}

Creators == {"student", "upload", "bulk"}

\* addDoc: the id of the document that will be created next (0: contest full)
FreshId ==
  IF \E s \in SubIds : subStatus[s] = "none"
    THEN CHOOSE s \in SubIds :
           subStatus[s] = "none" /\ \A t \in SubIds : subStatus[t] = "none" => s <= t
    ELSE 0

----------------------------------------------------------------------------
(* firestore.js: single-document operations *)

\* metadata argument of updateSubmissionStatus; "absent" marks a key not passed
NoMeta == [error |-> "absent", evaluatedAt |-> FALSE]

ErrorMeta(msg) == [error |-> msg, evaluatedAt |-> FALSE]

EvaluatedMeta == [error |-> "absent", evaluatedAt |-> TRUE]

\* createSubmission: addDoc of {studentId, questionId, code: code.trim(), status: "pending"}
createSubmission(s, code) ==
  /\ subStatus' = [subStatus EXCEPT ![s] = "pending"]
  /\ subCode' = [subCode EXCEPT ![s] = Trim(code)]
  /\ UNCHANGED <<subError, subEvaluatedAt, evalCount>>

\* variant: setDoc without merge, the document is replaced by the fields passed
updateSubmissionStatusReplacing(s, status, metadata) ==
  /\ subStatus' = [subStatus EXCEPT ![s] = status]
  /\ subError' = [subError EXCEPT ![s] = metadata.error]
  /\ subEvaluatedAt' = [subEvaluatedAt EXCEPT ![s] = metadata.evaluatedAt]
  /\ subCode' = [subCode EXCEPT ![s] = <<>>]
  /\ UNCHANGED evalCount

\* updateSubmissionStatus: setDoc(ref, {status, ...metadata, updatedAt}, {merge: true})
updateSubmissionStatus(s, status, metadata) ==
  /\ subStatus' = [subStatus EXCEPT ![s] = status]
  /\ subError' = [subError EXCEPT ![s] =
                    IF metadata.error = "absent" THEN @ ELSE metadata.error]
  /\ subEvaluatedAt' = [subEvaluatedAt EXCEPT ![s] = @ \/ metadata.evaluatedAt]
  /\ UNCHANGED <<subCode, evalCount>>

\* createEvaluation: addDoc into submissions/{id}/evaluations
createEvaluation(s) ==
  /\ evalCount' = [evalCount EXCEPT ![s] = @ + 1]
  /\ UNCHANGED <<subStatus, subCode, subError, subEvaluatedAt>>

StoreUnchanged == UNCHANGED <<subStatus, subCode, subError, subEvaluatedAt, evalCount>>

----------------------------------------------------------------------------
(* Handler bookkeeping *)

NoPractice == [len |-> 0, made |-> 0]

\* error.message of a rejected Firestore call
StoreRejected == "store rejected"

Goto(p, to) == pc' = [pc EXCEPT ![p] = to]

\* an awaited call rejects: control moves to the enclosing catch with the error
Throw(p, msg, handler) ==
  /\ pc' = [pc EXCEPT ![p] = handler]
  /\ caught' = [caught EXCEPT ![p] = msg]

Record(p, ev) == log' = [log EXCEPT ![p] = Append(@, ev)]

BeginRun(p, s) ==
  /\ cur' = [cur EXCEPT ![p] = s]
  /\ caught' = [caught EXCEPT ![p] = "none"]
  /\ log' = [log EXCEPT ![p] = <<>>]
  /\ callStatus' = [callStatus EXCEPT ![p] = "none"]
  /\ practice' = [practice EXCEPT ![p] = NoPractice]

Occurs(p, ev) == \E i \in 1..Len(log[p]) : log[p][i] = ev

BulkUnchanged == UNCHANGED <<bulkItems, bulkIdx>>

ReevalUnchanged == UNCHANGED reevalRuns

\* an awaited call resolves without touching the submission documents
Resolve(p, to) ==
  /\ Goto(p, to)
  /\ StoreUnchanged
  /\ UNCHANGED <<cur, caught, log, callStatus, practice>>

\* an awaited call rejects with message msg
Reject(p, msg, handler) ==
  /\ Throw(p, msg, handler)
  /\ StoreUnchanged
  /\ UNCHANGED <<cur, log, callStatus, practice>>

\* a status write that resolves
WriteStatus(p, status, metadata, to) ==
  /\ updateSubmissionStatus(cur[p], status, metadata)
  /\ Goto(p, to)
  /\ Record(p, status)
  /\ UNCHANGED <<cur, caught, callStatus, practice>>

----------------------------------------------------------------------------
(* The evaluation sequence the four handlers share, entered with status    *)
(* "evaluating" just written: JavaEditor.jsx 399-472, AdminPanel.jsx       *)
(* 724-777, 913-987, 1040-1108.                                            *)

\* practiceQuestions.length of a report
PracticeLens == {0, 3, 12}

\* leading entries of practiceQuestions that are null
FalsyEntries == {0, 1}

\* handleSubmissionsJSONUpload creates no practice tasks
HasPractice(p) == p # "bulk"

\* metadata passed with "evaluated": the bulk upload passes none
EvaluatedMetaOf(p) == IF p = "bulk" THEN NoMeta ELSE EvaluatedMeta

\* const topicAnalytics = await getTopicAnalytics(...)
StepHistory(p) ==
  /\ pc[p] = "evaluating"
  /\ \/ Resolve(p, "history")
     \/ Reject(p, StoreRejected, "catch")

\* const evaluation = await evaluateCodeSubmission({...})
StepEvaluate(p) ==
  /\ pc[p] = "history"
  /\ callStatus' = [callStatus EXCEPT ![p] = subStatus[cur[p]]]
  /\ UNCHANGED practice
  /\ Record(p, "evaluate")
  /\ StoreUnchanged
  /\ UNCHANGED cur
  /\ \/ Goto(p, "report") /\ UNCHANGED caught
     \/ Throw(p, "evaluateCodeSubmission failed", "catch")

\* await createEvaluation({... report: evaluation})
StepSaveReport(p) ==
  /\ pc[p] = "report"
  /\ \/ /\ createEvaluation(cur[p])
        /\ Goto(p, "saved")
        /\ Record(p, "report")
        /\ UNCHANGED <<cur, caught, callStatus, practice>>
     \/ Reject(p, StoreRejected, "catch")

\* await upsertTopicAnalytics({... topicUpdates})
StepTopics(p) ==
  /\ pc[p] = "saved"
  /\ \/ /\ Goto(p, IF HasPractice(p) THEN "topics" ELSE "tasks")
        /\ Record(p, "topics")
        /\ StoreUnchanged
        /\ UNCHANGED <<cur, caught, callStatus, practice>>
     \/ Reject(p, StoreRejected, "catch")

\* Math.min(Math.max(5, practiceQuestions.length), 10)
questionsToGenerate(n) == Min(Max(5, n), 10)

\* calls of createPracticeTask the loop makes when none rejects:
\* handleEvaluateSubmission (AdminPanel.jsx 1088-1099) iterates over the whole
\* array; the other two loops (JavaEditor.jsx 450-463, AdminPanel.jsx 965-978)
\* stop at questionsToGenerate and skip an entry that is missing or falsy
TasksOf(p, n, falsy) ==
  IF p = "reeval" THEN n
  ELSE Cardinality({i \in 1..questionsToGenerate(n) : i <= n /\ i > falsy})

\* the createPracticeTask loop over evaluation.practiceQuestions
StepPractice(p) ==
  /\ pc[p] = "topics"
  /\ \E n \in PracticeLens, falsy \in FalsyEntries :
       /\ falsy <= n
       /\ \/ /\ Goto(p, "tasks")
             /\ Record(p, "practice")
             /\ practice' = [practice EXCEPT
                              ![p] = [len |-> n, made |-> TasksOf(p, n, falsy)]]
             /\ StoreUnchanged
             /\ UNCHANGED <<cur, caught, callStatus>>
          \/ \* the first call of createPracticeTask rejects
             /\ TasksOf(p, n, falsy) > 0
             /\ practice' = [practice EXCEPT ![p] = [len |-> n, made |-> 0]]
             /\ Throw(p, StoreRejected, "catch")
             /\ StoreUnchanged
             /\ UNCHANGED <<cur, log, callStatus>>

\* StepEvaluated with the status write moved ahead of the topic analytics update
StepEvaluatedBeforeTopics(p) ==
  /\ pc[p] \in {"saved", "tasks"}
  /\ \/ WriteStatus(p, "evaluated", EvaluatedMetaOf(p), "done")
     \/ Reject(p, StoreRejected, "catch")

\* await updateSubmissionStatus(..., "evaluated", { evaluatedAt })
StepEvaluated(p) ==
  /\ pc[p] = "tasks"
  /\ \/ WriteStatus(p, "evaluated", EvaluatedMetaOf(p), "done")
     \/ Reject(p, StoreRejected, "catch")

EvaluationSteps(p) ==
  \/ StepHistory(p)
  \/ StepEvaluate(p)
  \/ StepSaveReport(p)
  \/ StepTopics(p)
  \/ StepPractice(p)
  \/ StepEvaluated(p)

\* finally { setSubmitting(false) } and its siblings: the handler can run again
Finish(p) ==
  /\ pc[p] = "done"
  /\ Goto(p, "idle")
  /\ BeginRun(p, 0)
  /\ StoreUnchanged

\* a rejected call whose error no catch of the handler turns into a status write
Abandon(p, msg) ==
  /\ Throw(p, msg, "done")
  /\ StoreUnchanged
  /\ UNCHANGED <<cur, log, callStatus, practice>>

\* The creating handlers write only the document they created, so their runs
\* commute; one creating run is in flight at a time, and
\* handleEvaluateSubmission interleaves freely with it.
NoCreatorInFlight == \A q \in Creators : pc[q] = "idle"

----------------------------------------------------------------------------
(* JavaEditor.jsx handleSubmit *)

handleSubmit ==
  LET p == "student" IN
  /\ BulkUnchanged
  /\ ReevalUnchanged
  /\ \/ \* 361-376: listSubjects, createSubmission
        /\ NoCreatorInFlight
        /\ \/ \E code \in Codes :
                /\ FreshId # 0
                /\ createSubmission(FreshId, code)
                /\ BeginRun(p, FreshId)
                /\ Goto(p, "created")
           \/ /\ BeginRun(p, 0)
              /\ Goto(p, "done")
              /\ StoreUnchanged
     \/ \* 379-384: status "submitted"; a rejection reaches the outer catch (498)
        /\ pc[p] = "created"
        /\ \/ WriteStatus(p, "submitted", NoMeta, "submitted")
           \/ Abandon(p, StoreRejected)
     \/ \* 386-397: wantAIReview ? status "evaluating" : finish
        /\ pc[p] = "submitted"
        /\ \/ WriteStatus(p, "evaluating", NoMeta, "evaluating")
           \/ Reject(p, StoreRejected, "catch")
           \/ Resolve(p, "done")
     \/ EvaluationSteps(p)
     \/ \* 478-488: catch (evalError): status "error" with { error: evalError.message }
        /\ pc[p] = "catch"
        /\ \/ WriteStatus(p, "error", ErrorMeta(caught[p]), "done")
           \/ Resolve(p, "done")
     \/ Finish(p)

----------------------------------------------------------------------------
(* AdminPanel.jsx handleUploadSubmission *)

handleUploadSubmission ==
  LET p == "upload" IN
  /\ BulkUnchanged
  /\ ReevalUnchanged
  /\ \/ \* 877-886: createSubmission; when it rejects submissionRef stays null
        /\ NoCreatorInFlight
        /\ \/ \E code \in Codes :
                /\ FreshId # 0
                /\ createSubmission(FreshId, code)
                /\ BeginRun(p, FreshId)
                /\ Goto(p, "created")
           \/ /\ BeginRun(p, 0)
              /\ Goto(p, "done")
              /\ StoreUnchanged
     \/ \* 889-894: status "submitted"
        /\ pc[p] = "created"
        /\ \/ WriteStatus(p, "submitted", NoMeta, "submitted")
           \/ Reject(p, StoreRejected, "catch")
     \/ \* 900-911: question lookup, then status "evaluating"
        /\ pc[p] = "submitted"
        /\ \/ WriteStatus(p, "evaluating", NoMeta, "evaluating")
           \/ Reject(p, StoreRejected, "catch")
           \/ Reject(p, "Question not found", "catch")
     \/ EvaluationSteps(p)
     \/ \* 1001-1012: catch (error): status "error" with { error: error.message }
        /\ pc[p] = "catch"
        /\ \/ WriteStatus(p, "error", ErrorMeta(caught[p]), "done")
           \/ Resolve(p, "done")
     \/ Finish(p)

----------------------------------------------------------------------------
(* AdminPanel.jsx handleSubmissionsJSONUpload *)

\* data.submissions.length of a file that passes the non-empty check (656)
BulkLens == 1..MaxBulk

\* variant: the loop is left when an entry is over
NextItemEndsLoop(p) ==
  /\ bulkIdx' = bulkItems + 1
  /\ UNCHANGED bulkItems

\* 672: for (const submission of data.submissions), the next entry
NextItem(p) ==
  /\ bulkIdx' = bulkIdx + 1
  /\ UNCHANGED bulkItems

handleSubmissionsJSONUpload ==
  LET p == "bulk" IN
  /\ ReevalUnchanged
  /\ \/ \* 651-669: read and parse the file
        /\ NoCreatorInFlight
        /\ \E n \in BulkLens :
             /\ bulkItems' = n
             /\ bulkIdx' = 1
        /\ BeginRun(p, 0)
        /\ Goto(p, "item")
        /\ StoreUnchanged
     \/ \* 672-705: next entry: resolve it and createSubmission
        /\ pc[p] = "item"
        /\ bulkIdx <= bulkItems
        /\ \/ \E code \in Codes :
                /\ FreshId # 0
                /\ createSubmission(FreshId, code)
                /\ BeginRun(p, FreshId)
                /\ Goto(p, "created")
                /\ BulkUnchanged
           \/ \* 795-799: the entry fails before a document exists
              /\ BeginRun(p, 0)
              /\ Goto(p, "item")
              /\ StoreUnchanged
              /\ NextItem(p)
     \/ \* 802-820: the loop is over
        /\ pc[p] = "item"
        /\ bulkIdx > bulkItems
        /\ bulkItems' = 0
        /\ bulkIdx' = 0
        /\ Resolve(p, "idle")
     \/ \* 708-713: status "submitted"; a rejection skips to the next entry (795)
        /\ pc[p] = "created"
        /\ \/ WriteStatus(p, "submitted", NoMeta, "submitted") /\ BulkUnchanged
           \/ /\ Goto(p, "item")
              /\ BeginRun(p, 0)
              /\ StoreUnchanged
              /\ NextItem(p)
     \/ \* 716-722: status "evaluating"
        /\ pc[p] = "submitted"
        /\ BulkUnchanged
        /\ \/ WriteStatus(p, "evaluating", NoMeta, "evaluating")
           \/ Reject(p, StoreRejected, "catch")
     \/ EvaluationSteps(p) /\ BulkUnchanged
     \/ \* 778-792: catch (evalError): status "error", no metadata; its own failure is swallowed
        /\ pc[p] = "catch"
        /\ BulkUnchanged
        /\ \/ WriteStatus(p, "error", NoMeta, "done")
           \/ Resolve(p, "done")
     \/ \* 794-799: successCount++ / errorCount++, next entry
        /\ pc[p] = "done"
        /\ Goto(p, "item")
        /\ BeginRun(p, 0)
        /\ StoreUnchanged
        /\ NextItem(p)

----------------------------------------------------------------------------
(* AdminPanel.jsx handleEvaluateSubmission *)

handleEvaluateSubmission ==
  LET p == "reeval" IN
  /\ BulkUnchanged
  /\ \/ \* 1024-1031: status "evaluating" on the submission passed in
        /\ pc[p] = "idle"
        /\ reevalRuns < MaxReevals
        /\ reevalRuns' = reevalRuns + 1
        /\ \E s \in SubIds :
             /\ subStatus[s] # "none"
             /\ cur' = [cur EXCEPT ![p] = s]
             /\ callStatus' = [callStatus EXCEPT ![p] = "none"]
             /\ practice' = [practice EXCEPT ![p] = NoPractice]
             /\ \/ /\ updateSubmissionStatus(s, "evaluating", NoMeta)
                   /\ log' = [log EXCEPT ![p] = <<"evaluating">>]
                   /\ caught' = [caught EXCEPT ![p] = "none"]
                   /\ Goto(p, "lookup")
                \/ /\ StoreUnchanged
                   /\ log' = [log EXCEPT ![p] = <<>>]
                   /\ Throw(p, StoreRejected, "catch")
     \/ \* 1034-1038: listContestQuestions, question lookup
        /\ pc[p] = "lookup"
        /\ ReevalUnchanged
        /\ \/ Resolve(p, "evaluating")
           \/ Reject(p, "Question not found", "catch")
     \/ EvaluationSteps(p) /\ ReevalUnchanged
     \/ \* 1112-1121: catch (error): status "error" with { error: error.message }
        /\ pc[p] = "catch"
        /\ ReevalUnchanged
        /\ \/ WriteStatus(p, "error", ErrorMeta(caught[p]), "done")
           \/ Resolve(p, "done")
     \/ Finish(p) /\ ReevalUnchanged

----------------------------------------------------------------------------
(* Submission lifecycle specification *)

LifeInit ==
  /\ subStatus = [s \in SubIds |-> "none"]
  /\ subCode = [s \in SubIds |-> <<>>]
  /\ subError = [s \in SubIds |-> "none"]
  /\ subEvaluatedAt = [s \in SubIds |-> FALSE]
  /\ evalCount = [s \in SubIds |-> 0]
  /\ pc = [p \in Procs |-> "idle"]
  /\ cur = [p \in Procs |-> 0]
  /\ caught = [p \in Procs |-> "none"]
  /\ log = [p \in Procs |-> <<>>]
  /\ callStatus = [p \in Procs |-> "none"]
  /\ practice = [p \in Procs |-> NoPractice]
  /\ bulkItems = 0
  /\ bulkIdx = 0
  /\ reevalRuns = 0


----------------------------------------------------------------------------
(* cursorAI.js: texts                                                      *)
(*                                                                         *)
(* A text is a sequence of tokens: a literal fragment or a number printed  *)
(* in decimal. String.prototype.includes is decided per token: for a       *)
(* number on its decimal digits, for a literal on the fragments listed     *)
(* below.                                                                  *)

T(str) == [s |-> str, n |-> 0]

N(num) == [s |-> "#", n |-> num]

\* the decimal digits of n contain the digits of d (d has three digits)
RECURSIVE DigitsInclude(_, _)
DigitsInclude(n, d) ==
  IF n < 100 THEN FALSE
  ELSE IF n % 1000 = d THEN TRUE
  ELSE DigitsInclude(n \div 10, d)

\* message texts of the backend's error body (errorData.error.message)
ServerMsgs ==
  {"models/x is not found for API version v1beta",
   "models/x is not supported for generateContent",
   "Internal error encountered"}

LiteralIncludes(str, marker) ==
  CASE marker = "not found"       -> str = "models/x is not found for API version v1beta"
    [] marker = "not supported"   -> str = "models/x is not supported for generateContent"
    [] marker = "not available"   -> str = "not available:"
    [] marker = "Failed to fetch" -> str = "Failed to fetch"
    [] OTHER                      -> FALSE

Includes(msg, marker) ==
  \E i \in 1..Len(msg) :
    IF msg[i].s = "#"
      THEN marker = "404" /\ DigitsInclude(msg[i].n, 404)
      ELSE LiteralIncludes(msg[i].s, marker)

\* part occurs in whole as a contiguous run of tokens
Contains(whole, part) ==
  \E k \in 0..(Len(whole) - Len(part)) :
    \A i \in 1..Len(part) : whole[k + i] = part[i]

RECURSIVE JoinNames(_)
JoinNames(names) ==
  IF names = <<>> THEN <<>> ELSE <<T(Head(names))>> \o JoinNames(Tail(names))

Err(name, message) == [name |-> name, message |-> message]

----------------------------------------------------------------------------
(* cursorAI.js: model discovery and ranking (callGeminiAPI 54-108) *)

\* the names of data.models in an OK answer of the listing request (<<>>: the
\* answer carries no model)
Discoveries ==
  {<<>>,
   <<"models/embedding-001">>,
   <<"models/gemini-1.5-pro", "models/embedding-001">>,
   <<"models/gemini-1.5-pro", "models/gemini-2.5-flash">>,
   <<"models/gemini-2.5-pro", "models/gemini-2.5-flash">>,
   <<"models/gemini-2.0-flash", "models/gemini-2.5-flash", "models/gemini-2.5-pro">>}

\* what the listing request can end in: the fetch or the reading of its body
\* rejects, the answer is not OK, or it is OK and names the models
ListingAnswers ==
  {[kind |-> k, names |-> <<>>] : k \in {"rejected", "notok"}}
  \cup {[kind |-> "ok", names |-> d] : d \in Discoveries}

NoListing == [kind |-> "none", names |-> <<>>]

\* listGeminiModels (19-31): the names, [] unless the answer is OK
listGeminiModels(l) == IF l.kind = "ok" THEN l.names ELSE <<>>

\* am.replace("models/", "")
StripPrefix(name) ==
  CASE name = "models/embedding-001"    -> "embedding-001"
    [] name = "models/gemini-1.5-pro"   -> "gemini-1.5-pro"
    [] name = "models/gemini-2.5-pro"   -> "gemini-2.5-pro"
    [] name = "models/gemini-2.5-flash" -> "gemini-2.5-flash"
    [] name = "models/gemini-2.0-flash" -> "gemini-2.0-flash"
    [] OTHER                            -> name

preferredModels ==
  <<"gemini-2.5-flash", "gemini-2.0-flash", "gemini-flash-latest",
    "gemini-2.5-pro", "gemini-pro-latest">>

fallbackModels == <<"gemini-2.5-flash", "gemini-2.5-pro", "gemini-2.0-flash">>

\* the filter of 83-89: no "embedding", "imagen", "aqa", "robotics" in the
\* name, and "flash" or "pro" in it
IsGenerationModel(mn) ==
  mn \in {"gemini-1.5-pro", "gemini-2.5-pro", "gemini-2.5-flash", "gemini-2.0-flash"}

InSeq(x, seq) == \E i \in 1..Len(seq) : seq[i] = x

\* variant: without the catch of 104-108, no candidates when ranking fails
RankModelsNoFallback(available) ==
  LET names == [i \in 1..Len(available) |-> StripPrefix(available[i])]
      IsAvailable(m) == InSeq(m, names)
      preferred == SelectSeq(preferredModels, IsAvailable)
      nonEmbedding == SelectSeq(names, IsGenerationModel)
  IN  IF Len(available) = 0 THEN <<>>
      ELSE IF preferred # <<>> THEN preferred
      ELSE IF nonEmbedding # <<>> THEN <<nonEmbedding[1]>>
      ELSE <<>>

\* modelsToTry as lines 57-108 compute it from the listing
RankModels(available) ==
  LET names == [i \in 1..Len(available) |-> StripPrefix(available[i])]
      IsAvailable(m) == InSeq(m, names)
      preferred == SelectSeq(preferredModels, IsAvailable)
      nonEmbedding == SelectSeq(names, IsGenerationModel)
  IN  IF Len(available) = 0 THEN fallbackModels
      ELSE IF preferred # <<>> THEN preferred
      ELSE IF nonEmbedding # <<>> THEN <<nonEmbedding[1]>>
      ELSE fallbackModels

----------------------------------------------------------------------------
(* cursorAI.js: callGeminiAPI (36-275) *)

DefaultTimeout == 60000

DefaultMaxTokens == 6000

\* the options the call sites pass (0: option not passed)
CallOptions ==
  {[max_tokens |-> 0, timeout |-> 0],
   [max_tokens |-> 6000, timeout |-> 0],
   [max_tokens |-> 8000, timeout |-> 0],
   [max_tokens |-> 500, timeout |-> 30000]}

\* prompts and key are represented by whether they are non-empty / configured
Requests ==
  {[systemPrompt |-> sp, userPrompt |-> up, apiKey |-> key,
    max_tokens |-> o.max_tokens, timeout |-> o.timeout] :
      sp \in BOOLEAN, up \in BOOLEAN, key \in BOOLEAN, o \in CallOptions}

NoRequest ==
  [systemPrompt |-> FALSE, userPrompt |-> FALSE, apiKey |-> FALSE,
   max_tokens |-> 0, timeout |-> 0]

\* const timeout = options.timeout || 60000
TimeoutOf(r) == IF r.timeout = 0 THEN DefaultTimeout ELSE r.timeout

\* options.max_tokens ?? 6000
MaxTokensOf(r) == IF r.max_tokens = 0 THEN DefaultMaxTokens ELSE r.max_tokens

\* candidates[0].content.parts[..].text of an answer:
\*   absent    no text field          empty     ""
\*   blank     only whitespace        prose     text that is not JSON
\*   json      a complete JSON object
\*   cut       an object cut short, no prefix of which ending in "}" parses
\*   cutprefix an object cut short, whose prefix up to its last "}" parses
\*   array     a complete JSON array
\*   cutarray  an array cut short
Contents ==
  {"absent", "empty", "blank", "prose", "json", "cut", "cutprefix",
   "array", "cutarray"}

FinishReasons == {"STOP", "MAX_TOKENS", "SAFETY", "none"}

\* usageMetadata.totalTokenCount / promptTokenCount (0: field absent)
TotalCounts == {0, 1404, 5000}

PromptCounts == {0, 120}

\* JSON.stringify(candidate.safetyRatings || [])
SafetyRatings == {"[]", "[{category:HARM_CATEGORY_DANGEROUS_CONTENT,probability:HIGH}]"}

NoResp ==
  [kind |-> "none", status |-> 0, msg |-> "", finishReason |-> "none",
   content |-> "absent", total |-> 0, prompt |-> 0, ratings |-> "[]"]

\* what the backend can do with one generateContent request
Responses ==
  {[NoResp EXCEPT !.kind = k] : k \in {"abort", "network", "badbody"}}
  \cup
  {[NoResp EXCEPT !.kind = "http", !.status = st, !.msg = m] :
      st \in {404, 429, 500}, m \in ServerMsgs}
  \cup
  {[NoResp EXCEPT !.kind = "ok", !.finishReason = f, !.content = c,
                  !.total = t, !.prompt = pr] :
      f \in FinishReasons, c \in Contents, t \in TotalCounts, pr \in PromptCounts}
  \cup
  {[NoResp EXCEPT !.kind = "ok", !.finishReason = "SAFETY", !.content = c,
                  !.ratings = ra] :
      c \in Contents, ra \in SafetyRatings}

NoError == Err("null", <<>>)

NoOutcome == [kind |-> "none", text |-> "absent", form |-> "none", error |-> NoError]

Returned(text, form) ==
  [kind |-> "returned", text |-> text, form |-> form, error |-> NoError]

Thrown(error) ==
  [kind |-> "thrown", text |-> "absent", form |-> "none", error |-> error]

StatusText(status) ==
  CASE status = 404 -> "Not Found"
    [] status = 429 -> "Too Many Requests"
    [] status = 500 -> "Internal Server Error"
    [] OTHER        -> ""

\* 165-170: the error lastError is set to before `continue`
UnavailableError(model, r) ==
  Err("Error", <<T("Model"), T(model), T("not available:"), T(r.msg)>>)

\* 173-176
HttpError(model, r, available) ==
  Err("Error",
      <<T("Gemini API error ("), T(model), T("): HTTP"), N(r.status),
        T(StatusText(r.status)), T("Error:"), T(r.msg), T("Available models:")>>
      \o JoinNames(available))

\* 224-227
TokenLimitError(request, r) ==
  Err("Error",
      <<T("Gemini API hit token limit ("), N(MaxTokensOf(request)),
        T(") with no content returned. Used"), N(r.total),
        T("tokens (prompt:"), N(r.prompt), T(")")>>)

\* 233-236
SafetyError(r) ==
  Err("Error",
      <<T("Gemini API blocked content due to safety filters. Ratings:"), T(r.ratings)>>)

\* JSON.stringify(data).substring(0, 500)
DataJSON(r) ==
  <<T(r.finishReason)>>
  \o (IF r.total # 0 THEN <<N(r.total)>> ELSE <<>>)
  \o (IF r.prompt # 0 THEN <<N(r.prompt)>> ELSE <<>>)

\* 238
NoContentError(r) ==
  Err("Error",
      <<T("Gemini API returned no content. Finish reason:"),
        T(IF r.finishReason = "none" THEN "unknown" ELSE r.finishReason),
        T("Response:")>> \o DataJSON(r))

\* variant: only a missing text counts as no content
FalsyOnlyAbsent(c) == c = "absent"

\* !content
Falsy(c) == c \in {"absent", "empty"}

\* content && content.trim().length > 0
HasText(c) == c \notin {"absent", "empty", "blank"}

\* content.trim().startsWith("{")
StartsWithBrace(c) == c \in {"json", "cut", "cutprefix"}

\* JSON.parse(content) returns
ParsesAsJSON(c) == c \in {"json", "array"}

\* the try block of one loop iteration (113-242): what it returns, or the
\* error it raises, or (165-170) the lastError it continues with
TryCandidate(request, model, r, available) ==
  CASE r.kind = "abort" ->
         [act |-> "raise", out |-> NoOutcome,
          error |-> Err("AbortError", <<T("The operation was aborted")>>)]
    [] r.kind = "network" ->
         [act |-> "raise", out |-> NoOutcome,
          error |-> Err("TypeError", <<T("Failed to fetch")>>)]
    [] r.kind = "badbody" ->
         [act |-> "raise", out |-> NoOutcome,
          error |-> Err("SyntaxError", <<T("Unexpected token < in JSON at position"), N(0)>>)]
    [] r.kind = "http" ->
         IF r.status = 404 /\ (LiteralIncludes(r.msg, "not found")
                                \/ LiteralIncludes(r.msg, "not supported"))
           THEN [act |-> "continue", out |-> NoOutcome, error |-> UnavailableError(model, r)]
           ELSE [act |-> "raise", out |-> NoOutcome, error |-> HttpError(model, r, available)]
    [] OTHER ->
         IF r.finishReason = "MAX_TOKENS"
           THEN IF HasText(r.content)
                  THEN [act |-> "return", error |-> NoError,
                        out |-> Returned(r.content,
                                  IF ~StartsWithBrace(r.content) \/ r.content = "json"
                                    THEN "whole"
                                  ELSE IF r.content = "cutprefix" THEN "prefix"
                                  ELSE "annotated")]
                  ELSE [act |-> "raise", out |-> NoOutcome,
                        error |-> TokenLimitError(request, r)]
         ELSE IF Falsy(r.content)
           THEN [act |-> "raise", out |-> NoOutcome,
                 error |-> IF r.finishReason = "SAFETY"
                             THEN SafetyError(r) ELSE NoContentError(r)]
         ELSE [act |-> "return", error |-> NoError, out |-> Returned(r.content, "whole")]

\* variant: an aborted request is not told apart from other errors
CatchCandidateAbortFatal(request, model, error) ==
  IF \/ Includes(error.message, "not found")
     \/ Includes(error.message, "404")
     \/ Includes(error.message, "not available")
    THEN [act |-> "continue", error |-> error]
  ELSE IF Includes(error.message, "Failed to fetch") \/ error.name = "TypeError"
    THEN [act |-> "continue",
          error |-> Err("Error", <<T("Network error:")>> \o error.message)]
  ELSE [act |-> "throw", error |-> error]

\* variant: every error is kept as lastError and the loop goes on
CatchCandidateAlwaysContinue(request, model, error) ==
  IF error.name = "AbortError"
    THEN [act |-> "continue",
          error |-> Err("Error", <<T("API request timed out after"),
                                   N(TimeoutOf(request)), T("ms for model"), T(model)>>)]
  ELSE [act |-> "continue", error |-> error]

\* variant: a failed fetch is not told apart from other errors
CatchCandidateNetworkFatal(request, model, error) ==
  IF error.name = "AbortError"
    THEN [act |-> "continue",
          error |-> Err("Error", <<T("API request timed out after"),
                                   N(TimeoutOf(request)), T("ms for model"), T(model)>>)]
  ELSE IF \/ Includes(error.message, "not found")
          \/ Includes(error.message, "404")
          \/ Includes(error.message, "not available")
    THEN [act |-> "continue", error |-> error]
  ELSE [act |-> "throw", error |-> error]

\* the catch block of the loop (243-263): the lastError to continue with, or
\* the error thrown out of the call
CatchCandidate(request, model, error) ==
  IF error.name = "AbortError"
    THEN [act |-> "continue",
          error |-> Err("Error", <<T("API request timed out after"),
                                   N(TimeoutOf(request)), T("ms for model"), T(model)>>)]
  ELSE IF \/ Includes(error.message, "not found")
          \/ Includes(error.message, "404")
          \/ Includes(error.message, "not available")
    THEN [act |-> "continue", error |-> error]
  ELSE IF Includes(error.message, "Failed to fetch") \/ error.name = "TypeError"
    THEN [act |-> "continue",
          error |-> Err("Error", <<T("Network error:")>> \o error.message)]
  ELSE [act |-> "throw", error |-> error]

\* one iteration of `for (const model of modelsToTry)`
Iteration(request, model, r, available) ==
  LET t == TryCandidate(request, model, r, available) IN
  IF t.act = "raise"
    THEN LET c == CatchCandidate(request, model, t.error) IN
         [act |-> c.act, out |-> NoOutcome, error |-> c.error]
    ELSE t

\* variant: the final error names the candidates only
AllFailedErrorNamesOnly(models, last, available) ==
  Err("Error",
      <<T("All Gemini models failed. Tried:")>> \o JoinNames(models)
      \o <<T("Unknown error")>>
      \o <<T("Available models:")>> \o JoinNames(available))

\* 267-270
AllFailedError(models, last, available) ==
  Err("Error",
      <<T("All Gemini models failed. Tried:")>> \o JoinNames(models)
      \o (IF last = NoError THEN <<T("Unknown error")>>
          ELSE <<T("Last error:")>> \o last.message)
      \o <<T("Available models:")>> \o JoinNames(available))

\* 37-48: key and prompt validation
ApiStart ==
  /\ apiPc = "idle"
  /\ \E r \in Requests :
       /\ req' = r
       /\ IF ~r.apiKey
            THEN /\ outcome' = Thrown(Err("Error", <<T("GEMINI_API_KEY is not configured")>>))
                 /\ apiPc' = "done"
          ELSE IF ~r.systemPrompt \/ ~r.userPrompt
            THEN /\ outcome' = Thrown(Err("Error",
                                  <<T("Both systemPrompt and userPrompt are required")>>))
                 /\ apiPc' = "done"
          ELSE /\ outcome' = NoOutcome
               /\ apiPc' = "listing"
  /\ UNCHANGED <<listing, availableModels, modelsToTry, idx, lastError, tried,
                 reasons, lastResp>>

\* 54-110: listGeminiModels and the ranking
ApiRank ==
  /\ apiPc = "listing"
  /\ \E l \in ListingAnswers :
       /\ listing' = l
       /\ availableModels' = listGeminiModels(l)
       /\ modelsToTry' = RankModels(listGeminiModels(l))
  /\ idx' = 1
  /\ lastError' = NoError
  /\ apiPc' = "trying"
  /\ UNCHANGED <<req, tried, reasons, lastResp, outcome>>

\* 112-264: one candidate
ApiAttempt ==
  /\ apiPc = "trying"
  /\ idx <= Len(modelsToTry)
  /\ \E r \in Responses :
       LET model == modelsToTry[idx]
           it == Iteration(req, model, r, availableModels)
       IN  /\ tried' = Append(tried, model)
           /\ lastResp' = r
           /\ \/ /\ it.act = "return"
                 /\ outcome' = it.out
                 /\ apiPc' = "done"
                 /\ UNCHANGED <<idx, lastError, reasons>>
              \/ /\ it.act = "continue"
                 /\ lastError' = it.error
                 /\ reasons' = Append(reasons, it.error.message)
                 /\ idx' = idx + 1
                 /\ UNCHANGED <<apiPc, outcome>>
              \/ /\ it.act = "throw"
                 /\ outcome' = Thrown(it.error)
                 /\ reasons' = Append(reasons, it.error.message)
                 /\ apiPc' = "done"
                 /\ UNCHANGED <<idx, lastError>>
  /\ UNCHANGED <<req, listing, availableModels, modelsToTry>>

\* 266-270: every candidate failed
ApiExhausted ==
  /\ apiPc = "trying"
  /\ idx > Len(modelsToTry)
  /\ outcome' = Thrown(AllFailedError(modelsToTry, lastError, availableModels))
  /\ apiPc' = "exhausted"
  /\ UNCHANGED <<req, listing, availableModels, modelsToTry, idx, lastError, tried, reasons, lastResp>>

ApiInit ==
  /\ apiPc = "idle"
  /\ req = NoRequest
  /\ listing = NoListing
  /\ availableModels = <<>>
  /\ modelsToTry = <<>>
  /\ idx = 0
  /\ lastError = NoError
  /\ tried = <<>>
  /\ reasons = <<>>
  /\ lastResp = NoResp
  /\ outcome = NoOutcome

----------------------------------------------------------------------------
(* cursorAI.js: the suspension points of callGeminiAPI. Each `await` on the *)
(* network is a position of the call: the listing request and its body     *)
(* (listGeminiModels 19-31), the generation request (127-147) and its body  *)
(* (149-151 for an error answer, 179 for an OK one). Only the generation    *)
(* request runs under the timer of 123-126, which clearTimeout (147) stops  *)
(* as soon as the request has answered.                                     *)

\* the answers followed through the suspension points: one of each status,
\* finish reason and content, with no usage metadata
WaitResponses ==
  {r \in Responses :
     /\ r.total = 0 /\ r.prompt = 0 /\ r.ratings = "[]"
     /\ r.msg # "models/x is not supported for generateContent"}

\* 57-108 once the listing is known
Ranked(l) ==
  /\ listing' = l
  /\ availableModels' = listGeminiModels(l)
  /\ modelsToTry' = RankModels(listGeminiModels(l))
  /\ idx' = 1
  /\ lastError' = NoError
  /\ apiPc' = "trying"
  /\ UNCHANGED <<req, tried, reasons, lastResp, outcome>>

\* 22: `await fetch(url)` of listGeminiModels answers; no timer runs
ListingFetch ==
  /\ apiPc = "listing"
  /\ \/ \E l \in ListingAnswers : l.kind # "ok" /\ Ranked(l)
     \/ /\ apiPc' = "listingBody"      \* response.ok
        /\ UNCHANGED <<req, listing, availableModels, modelsToTry, idx, lastError,
                       tried, reasons, lastResp, outcome>>

\* 24: `await response.json()` of listGeminiModels answers; no timer runs
ListingBody ==
  /\ apiPc = "listingBody"
  /\ \E l \in ListingAnswers : l.kind \in {"ok", "rejected"} /\ Ranked(l)

\* 113-147: the timer is started and the generation request is sent
CandidateSend ==
  /\ apiPc = "trying"
  /\ idx <= Len(modelsToTry)
  /\ apiPc' = "fetching"
  /\ tried' = Append(tried, modelsToTry[idx])
  /\ UNCHANGED <<req, listing, availableModels, modelsToTry, idx, lastError, reasons,
                 lastResp, outcome>>

\* the rest of the loop iteration once the answer r is known
Settle(r) ==
  LET it == Iteration(req, modelsToTry[idx], r, availableModels) IN
  /\ lastResp' = r
  /\ \/ /\ it.act = "return"
        /\ outcome' = it.out
        /\ apiPc' = "done"
        /\ UNCHANGED <<idx, lastError, reasons>>
     \/ /\ it.act = "continue"
        /\ lastError' = it.error
        /\ reasons' = Append(reasons, it.error.message)
        /\ idx' = idx + 1
        /\ apiPc' = "trying"
        /\ UNCHANGED outcome
     \/ /\ it.act = "throw"
        /\ outcome' = Thrown(it.error)
        /\ reasons' = Append(reasons, it.error.message)
        /\ apiPc' = "done"
        /\ UNCHANGED <<idx, lastError>>
  /\ UNCHANGED <<req, listing, availableModels, modelsToTry, tried>>

\* 123-126: the timer fires while the request is pending; controller.abort()
\* rejects the fetch with an AbortError
FetchDeadline ==
  /\ apiPc = "fetching"
  /\ Settle([NoResp EXCEPT !.kind = "abort"])

\* 127-147: the request answers before the timer fires: it rejects (network
\* failure), or it resolves with the status line and clearTimeout runs
FetchAnswers ==
  /\ apiPc = "fetching"
  /\ \E r \in WaitResponses :
       \/ /\ r.kind = "network"
          /\ Settle(r)
       \/ /\ r.kind \in {"http", "ok", "badbody"}
          /\ lastResp' = r
          /\ apiPc' = "reading"
          /\ UNCHANGED <<req, listing, availableModels, modelsToTry, idx, lastError,
                         tried, reasons, outcome>>

\* 150 / 179: `await response.text()` or `await response.json()` answers;
\* the timer is no longer running
BodyAnswers ==
  /\ apiPc = "reading"
  /\ Settle(lastResp)

\* the steps that need no answer of the backend: the code's own statements
\* and the timer
WaitLocal == CandidateSend \/ FetchDeadline \/ ApiExhausted

----------------------------------------------------------------------------
(* cursorAI.js: evaluateCodeSubmission, from the answer of callGeminiAPI   *)
(* to the report (357-409).                                                *)
(*                                                                         *)
(* A JavaScript value is a record: its type tag t, its number n, and s,    *)
(* the characters of a string (for an array or object, what it holds).     *)

V(t, n, s) == [t |-> t, n |-> n, s |-> s]

Undefined == V("undefined", 0, "")

Null == V("null", 0, "")

Num(n) == V("number", n, "")

NaN == V("number", 0, "NaN")

Str(s) == V("string", 0, s)

Bool(b) == V("boolean", IF b THEN 1 ELSE 0, "")

Arr(s) == V("array", 0, s)

Obj(s) == V("object", 0, s)

\* the text callGeminiAPI returned, as a value
ResponseText == Str("<response>")

\* Number(x)
ToNumber(x) ==
  CASE x.t = "number"    -> x
    [] x.t = "undefined" -> NaN
    [] x.t = "null"      -> Num(0)
    [] x.t = "boolean"   -> Num(x.n)
    [] x.t = "string"    -> IF x.s = "" THEN Num(0)
                            ELSE IF x.s = "85" THEN Num(85)
                            ELSE NaN
    [] x.t = "array"     -> IF x.s = "[]" THEN Num(0) ELSE NaN
    [] OTHER             -> NaN

\* ToBoolean(x), as || and ! apply it
Truthy(x) ==
  CASE x.t \in {"undefined", "null"} -> FALSE
    [] x.t = "number"  -> x.s # "NaN" /\ x.n # 0
    [] x.t = "string"  -> x.s # ""
    [] x.t = "boolean" -> x.n = 1
    [] OTHER           -> TRUE

\* Array.isArray(x)
IsArray(x) == x.t = "array"

\* typeof x === "object"
TypeofObject(x) == x.t \in {"object", "array", "null"}

\* values a field of the parsed JSON can hold (Undefined: the field is absent)
ListVals == {Undefined, Arr("[]"), Arr("[items]"), Str("good")}

ScoreVals == {Undefined, Null, Num(0), Num(85), Num(100), Num(150), Num(0 - 5),
              Str("85"), Str("good"), Bool(TRUE)}

MapVals == {Undefined, Null, Obj("{}"), Obj("{arrays:80}"), Arr("[items]"), Str("good")}

TextVals == {Undefined, Str(""), Str("good"), Num(85), Obj("{}")}

ReportFields == {"strengths", "weaknesses", "suggestions", "topicScores",
                 "overallScore", "detailedAnalysis", "practiceQuestions"}

NoData ==
  [kind |-> "none", strengths |-> Undefined, weaknesses |-> Undefined,
   suggestions |-> Undefined, topicScores |-> Undefined, overallScore |-> Undefined,
   detailedAnalysis |-> Undefined, practiceQuestions |-> Undefined]

\* what JSON.parse can give: an object with any of the fields, or a value
\* that is not an object
ParsedValues ==
  {[kind |-> "object", strengths |-> st, weaknesses |-> we, suggestions |-> Undefined,
    topicScores |-> ts, overallScore |-> os, detailedAnalysis |-> da,
    practiceQuestions |-> pq] :
      st \in ListVals, we \in {Undefined, Arr("[items]")}, ts \in MapVals,
      os \in ScoreVals, da \in TextVals, pq \in {Undefined, Arr("[items]"), Null}}
  \cup
  {[NoData EXCEPT !.kind = "object", !.suggestions = su] : su \in ListVals}
  \cup
  {[NoData EXCEPT !.kind = k] : k \in {"null", "number", "string", "array"}}

\* forms of the text: a fenced block holding JSON, JSON alone, a fenced
\* block holding text that does not parse, prose, whitespace
ParsingForms == {"fenced", "bare"}

FailingForms == {"fencedBroken", "prose", "blank"}

EvalResponses ==
  {[form |-> f, data |-> d] : f \in ParsingForms, d \in ParsedValues}
  \cup {[form |-> f, data |-> NoData] : f \in FailingForms}

\* variant: a text that does not parse gives no value
ExtractNoFallback(response) ==
  IF response.form \in ParsingForms
    THEN response.data
    ELSE [NoData EXCEPT !.kind = "null"]

\* 371-391: evaluationData
Extract(response) ==
  IF response.form \in ParsingForms
    THEN response.data
    ELSE [kind |-> "object", strengths |-> Arr("[]"), weaknesses |-> Arr("[]"),
          suggestions |-> Arr("[]"), topicScores |-> Obj("{}"),
          overallScore |-> Num(50), detailedAnalysis |-> ResponseText,
          practiceQuestions |-> Arr("[]")]

\* evaluationData.f
Field(data, f) == IF data.kind = "object" THEN data[f] ELSE Undefined

\* Number(x) || 50, given Number(x)
OrFifty(x) == IF Truthy(x) THEN x ELSE Num(50)

\* x || response
OrResponse(x) == IF Truthy(x) THEN x ELSE ResponseText

\* Array.isArray(x) ? x : []
ArrayOrEmpty(x) == IF IsArray(x) THEN x ELSE Arr("[]")

\* 394-405: the object returned
Normalize(data) ==
  [strengths |-> ArrayOrEmpty(Field(data, "strengths")),
   weaknesses |-> ArrayOrEmpty(Field(data, "weaknesses")),
   suggestions |-> ArrayOrEmpty(Field(data, "suggestions")),
   topicScores |-> IF TypeofObject(Field(data, "topicScores"))
                     THEN Field(data, "topicScores") ELSE Obj("{}"),
   overallScore |-> OrFifty(ToNumber(Field(data, "overallScore"))),
   detailedAnalysis |-> OrResponse(Field(data, "detailedAnalysis")),
   practiceQuestions |-> ArrayOrEmpty(Field(data, "practiceQuestions"))]

NoReport == [f \in ReportFields |-> Undefined]

\* callGeminiAPI returned the text evResponse
EvalReturns ==
  /\ evPc = "ready"
  /\ IF Extract(evResponse).kind = "null"
       THEN \* evaluationData.strengths of null: TypeError, rethrown at 406-409
            /\ evPc' = "thrown"
            /\ evReport' = NoReport
       ELSE /\ evPc' = "returned"
            /\ evReport' = Normalize(Extract(evResponse))
  /\ UNCHANGED evResponse

\* callGeminiAPI threw: 406-409 rethrow
EvalCallFails ==
  /\ evPc = "ready"
  /\ evPc' = "thrown"
  /\ evReport' = NoReport
  /\ evResponse' = [form |-> "threw", data |-> NoData]

EvalIdle ==
  /\ evPc = "ready"
  /\ evResponse = [form |-> "prose", data |-> NoData]
  /\ evReport = NoReport

EvalInit ==
  /\ evPc = "ready"
  /\ evResponse \in EvalResponses
  /\ evReport = NoReport

----------------------------------------------------------------------------
(* firestore.js: calculateVedamSubjectScore (324-368) and                  *)
(* upsertStudentSubjectScore (370-404).                                    *)
(*                                                                         *)
(* Inputs are JavaScript values whose numbers are whole marks. A computed  *)
(* number is held in hundredths, as Number(x.toFixed(2)) leaves it: h is   *)
(* the number times 100, nan tells it is NaN.                              *)

Fixed(h) == [nan |-> FALSE, h |-> h]

FixedNaN == [nan |-> TRUE, h |-> 0]

IsNaN(x) == x.t = "number" /\ x.s = "NaN"

\* a / b rounded to the nearest integer, for a >= 0 and b > 0
RoundDiv(a, b) == (2 * a + b) \div (2 * b)

\* clamp = (value, min, max) => Math.min(Math.max(value, min), max)
clamp(value, lo, hi) == Min(Max(value, lo), hi)

MockScores == {Undefined, Null, Num(55), Num(0), Num(0 - 3), Num(75), NaN,
               Str("85"), Str("good")}

Entry(raw, max) == [rawScore |-> raw, maxScore |-> max]

\* entries of the marks form (numbers, NaN for text that is not a number)
\* and entries other callers can pass
ContestEntries ==
  {Entry(Num(18), Num(20)), Entry(Num(8), Num(10)), Entry(Num(1), Num(3)),
   Entry(Num(25), Num(10)), Entry(Num(0 - 5), Num(10)), Entry(NaN, Num(10)),
   Entry(Num(18), Num(0)), Entry(Num(18), Num(0 - 10)), Entry(Num(18), NaN),
   Entry(Str("85"), Num(10)), Entry(Num(18), Undefined)}

EntryLists == UNION {[1..n -> ContestEntries] : n \in 0..MaxEntries}

\* the filter of 328-335
Participates(entry) ==
  /\ entry.rawScore.t = "number"
  /\ entry.maxScore.t = "number"
  /\ ~IsNaN(entry.maxScore)
  /\ entry.maxScore.n > 0

\* 337: clamp((rawScore / maxScore) * 50, 0, 50), then toFixed(2)
NormalizedScore(entry) ==
  IF IsNaN(entry.rawScore) THEN FixedNaN
  ELSE IF entry.rawScore.n <= 0 THEN Fixed(0)
  ELSE Fixed(clamp(RoundDiv(entry.rawScore.n * 5000, entry.maxScore.n), 0, 5000))

\* 336-345: the entry stored for a participating contest
Sanitize(entry) ==
  [rawScore |-> IF IsNaN(entry.rawScore) THEN FixedNaN ELSE Fixed(entry.rawScore.n * 100),
   maxScore |-> Fixed(entry.maxScore.n * 100),
   normalizedScore |-> NormalizedScore(entry)]

\* 347-350: the reduce over normalizedScore
RECURSIVE SumNormalized(_)
SumNormalized(entries) ==
  IF entries = <<>> THEN Fixed(0)
  ELSE LET rest == SumNormalized(Tail(entries))
           first == Head(entries).normalizedScore
       IN  IF first.nan \/ rest.nan THEN FixedNaN ELSE Fixed(first.h + rest.h)

\* Number(mockScore ?? 0), then clamp to [0, 60]
SanitizedMock(mockScore) ==
  LET m == IF mockScore.t \in {"undefined", "null"} THEN Num(0) ELSE ToNumber(mockScore)
  IN  IF IsNaN(m) THEN FixedNaN ELSE Fixed(clamp(m.n * 100, 0, 6000))

calculateVedamSubjectScore(contestEntries, mockScore) ==
  LET sanitizedEntries == [i \in 1..Len(SelectSeq(contestEntries, Participates)) |->
                             Sanitize(SelectSeq(contestEntries, Participates)[i])]
      contestNormalizedTotal == SumNormalized(sanitizedEntries)
      contestCount == Len(sanitizedEntries)
      \* contestCount * 50 || 1
      contestMaxPossible == IF contestCount = 0 THEN 1 ELSE contestCount * 50
      sanitizedMock == SanitizedMock(mockScore)
      \* (contestNormalizedTotal / contestMaxPossible) * 40 in hundredths is
      \* contestNormalizedTotal.h * 40 / contestMaxPossible
      scaledNum == contestNormalizedTotal.h * 40
  IN  [entries |-> sanitizedEntries,
       contestNormalizedTotal |-> contestNormalizedTotal,
       contestMaxPossible |-> contestMaxPossible,
       contestScaled40 |->
         IF contestNormalizedTotal.nan THEN FixedNaN
         ELSE Fixed(clamp(RoundDiv(scaledNum, contestMaxPossible), 0, 4000)),
       mockScore |-> sanitizedMock,
       total |->
         IF contestNormalizedTotal.nan \/ sanitizedMock.nan THEN FixedNaN
         ELSE Fixed(clamp(RoundDiv(Min(scaledNum, 4000 * contestMaxPossible)
                                     + sanitizedMock.h * contestMaxPossible,
                                   contestMaxPossible), 0, 10000))]

NoScoreDoc ==
  [exists |-> FALSE, contests |-> <<>>, contestNormalizedTotal |-> Fixed(0),
   contestMaxPossible |-> 0, contestScaled40 |-> Fixed(0), mockScore |-> Fixed(0),
   total |-> Fixed(0)]

\* the fields upsertStudentSubjectScore passes to setDoc (386-396)
ScorePayload(result) ==
  [exists |-> TRUE, contests |-> result.entries,
   contestNormalizedTotal |-> result.contestNormalizedTotal,
   contestMaxPossible |-> result.contestMaxPossible,
   contestScaled40 |-> result.contestScaled40,
   mockScore |-> result.mockScore, total |-> result.total]

\* variant: the contests of a publication are added to the stored ones
SetScoreDocAppending(old, payload) ==
  [payload EXCEPT !.contests = old.contests \o payload.contests]

\* setDoc(scoreRef, payload, {merge: true}): each field passed replaces the
\* stored one, the contests array as a whole
SetScoreDoc(old, payload) ==
  [f \in DOMAIN old |-> IF f \in DOMAIN payload THEN payload[f] ELSE old[f]]

\* upsertStudentSubjectScore with the contents of the marks form
PublishScore ==
  /\ scCalls < MaxPublishes
  /\ scCalls' = scCalls + 1
  /\ \E end \in {"stored", "setDoc rejected", "getDoc rejected"} :
       /\ scResult' = Append(scResult, end)
       /\ scDoc' = IF end = "setDoc rejected" THEN scDoc
                   ELSE SetScoreDoc(scDoc, ScorePayload(
                          calculateVedamSubjectScore(scArgs.contestEntries, scArgs.mockScore)))
  /\ UNCHANGED scArgs

\* 374-376: studentId or subjectId missing
PublishScoreWithoutIds ==
  /\ scCalls < MaxPublishes
  /\ scCalls' = scCalls + 1
  /\ scResult' = Append(scResult, "ids required")
  /\ UNCHANGED <<scDoc, scArgs>>

\* documents earlier publications can have left
EarlierScoreDocs ==
  {NoScoreDoc,
   ScorePayload(calculateVedamSubjectScore(
     <<Entry(Num(18), Num(20))>>, Num(55))),
   ScorePayload(calculateVedamSubjectScore(
     <<Entry(Num(1), Num(3)), Entry(Num(25), Num(10))>>, Undefined))}

ScoreIdle ==
  /\ scDoc = NoScoreDoc
  /\ scArgs = [contestEntries |-> <<>>, mockScore |-> Undefined]
  /\ scCalls = 0
  /\ scResult = <<>>

ScoreInit ==
  /\ scDoc \in EarlierScoreDocs
  /\ scArgs \in [contestEntries : EntryLists, mockScore : MockScores]
  /\ scCalls = 0
  /\ scResult = <<>>

----------------------------------------------------------------------------
(* firestore.js: upsertTopicAnalytics (631-664), normalizeTopicName        *)
(* (947-950), and the topicUpdates the pipelines build (JavaEditor.jsx     *)
(* 433-439, AdminPanel.jsx 757-763, 947-953, 1074-1080).                   *)
(*                                                                         *)
(* A topic name is a sequence of characters, "s" standing for a space as   *)
(* in Codes.                                                               *)

\* "Arrays", "arrays ", "arrays", "loops"
TopicNames == {<<"A">>, <<"a", "s">>, <<"a">>, <<"l">>}

ToLowerCase(str) == [i \in 1..Len(str) |-> IF str[i] = "A" THEN "a" ELSE str[i]]

\* topic.toLowerCase().trim()
normalizeTopicName(topic) == Trim(ToLowerCase(topic))

\* the evaluation pipelines that can run for one student and subject at the
\* same time (the student's editor, the admin panel)
Callers == {"editor", "admin"}

NoTopic == [present |-> FALSE, score |-> Undefined, strength |-> Undefined, contestCount |-> 0]

TopicEntry(score, strength, count) ==
  [present |-> TRUE, score |-> score, strength |-> strength, contestCount |-> count]

NoUpdate == [has |-> FALSE, score |-> Undefined, strength |-> Undefined]

Update(score, strength) == [has |-> TRUE, score |-> score, strength |-> strength]

\* score >= 75 ? "strong" : score < 50 ? "weak" : "medium"
StrengthOf(score) ==
  IF score >= 75 THEN Str("strong") ELSE IF score < 50 THEN Str("weak") ELSE Str("medium")

\* what a pipeline passes for one topic of evaluation.topicScores
PipelineUpdates == {Update(Num(n), StrengthOf(n)) : n \in {40, 60, 80}}

\* what other callers may pass for one topic
OtherUpdates ==
  {Update(Num(80), Undefined), Update(Num(40), Undefined),
   Update(Undefined, Str("weak")), Update(Num(80), Str("weak"))}

NoUpdates == [t \in TopicNames |-> NoUpdate]

\* topicUpdates objects: one topic, or two topics from a pipeline
TopicUpdateSets ==
  {[NoUpdates EXCEPT ![t] = u] : t \in TopicNames, u \in PipelineUpdates \cup OtherUpdates}
  \cup
  {[NoUpdates EXCEPT ![t1] = u1, ![t2] = u2] :
     t1 \in {<<"A">>, <<"a">>}, t2 \in {<<"a", "s">>, <<"l">>},
     u1 \in {Update(Num(80), Str("strong"))}, u2 \in {Update(Num(40), Str("weak"))}}

\* a ?? b
Coalesce(a, b) == IF a.t \in {"undefined", "null"} THEN b ELSE a

\* 642: the entry for this topic is written anew
Rewritten(existing, update) ==
  update.has /\ (~existing.present \/ update.score.t # "undefined")

\* variant: the strength is derived from the score written
MergedEntryDerivingStrength(existing, update) ==
  LET score == Coalesce(update.score, Coalesce(existing.score, Num(50)))
  IN  TopicEntry(score,
                 IF score.t = "number" THEN StrengthOf(score.n) ELSE Str("medium"),
                 existing.contestCount + 1)

\* 643-648
MergedEntry(existing, update) ==
  TopicEntry(Coalesce(update.score, Coalesce(existing.score, Num(50))),
             Coalesce(update.strength, Coalesce(existing.strength, Str("medium"))),
             existing.contestCount + 1)

\* 640-650: mergedTopics
MergeTopics(existingTopics, topicUpdates) ==
  [t \in TopicNames |->
     IF Rewritten(existingTopics[t], topicUpdates[t])
       THEN MergedEntry(existingTopics[t], topicUpdates[t])
       ELSE existingTopics[t]]

\* setDoc(analyticsRef, {topics: mergedTopics, ...}, {merge: true}): every
\* topic present in mergedTopics replaces the stored one, the others stay
SetTopics(stored, mergedTopics) ==
  [t \in TopicNames |-> IF mergedTopics[t].present THEN mergedTopics[t] ELSE stored[t]]

\* 635-637: getDoc, for a call with the updates u
TopicsRead(c) ==
  /\ taPc[c] = "idle"
  /\ taCalls < MaxTopicCalls
  /\ taCalls' = taCalls + 1
  /\ \E u \in TopicUpdateSets : taUpd' = [taUpd EXCEPT ![c] = u]
  /\ \/ /\ taRead' = [taRead EXCEPT ![c] = taTopics]
        /\ taPc' = [taPc EXCEPT ![c] = "read"]
     \/ \* getDoc rejects
        /\ taPc' = [taPc EXCEPT ![c] = "failed"]
        /\ UNCHANGED taRead
  /\ UNCHANGED <<taTopics, taBumps>>

\* 639-661: merge and setDoc
TopicsWrite(c) ==
  /\ taPc[c] = "read"
  /\ \/ /\ taTopics' = SetTopics(taTopics, MergeTopics(taRead[c], taUpd[c]))
        /\ taBumps' = [t \in TopicNames |->
                         IF Rewritten(taRead[c][t], taUpd[c][t])
                           THEN taBumps[t] + 1 ELSE taBumps[t]]
        /\ taPc' = [taPc EXCEPT ![c] = "written"]
     \/ \* setDoc rejects
        /\ taPc' = [taPc EXCEPT ![c] = "failed"]
        /\ UNCHANGED <<taTopics, taBumps>>
  /\ UNCHANGED <<taRead, taUpd, taCalls>>

\* 663: the final getDoc resolves or rejects; the caller goes on
TopicsReturn(c) ==
  /\ taPc[c] \in {"written", "failed"}
  /\ taPc' = [taPc EXCEPT ![c] = "idle"]
  /\ UNCHANGED <<taTopics, taRead, taUpd, taCalls, taBumps>>

TopicsInit ==
  /\ taTopics = [t \in TopicNames |-> NoTopic]
  /\ taPc = [c \in Callers |-> "idle"]
  /\ taRead = [c \in Callers |-> [t \in TopicNames |-> NoTopic]]
  /\ taUpd = [c \in Callers |-> NoUpdates]
  /\ taCalls = 0
  /\ taBumps = [t \in TopicNames |-> 0]

----------------------------------------------------------------------------
(* cursorAI.js: the extraction of a structured response, as generateMathsQuiz *)
(* (481-562) and generateJavaCodingQuestions (1166-1247) do it.              *)
(*                                                                         *)
(* A text is a sequence of characters. "f" stands for a code fence, "k"    *)
(* for a member name with its colon ("key":), "x" for any other character. *)

\* a[i], or "" past the end as a failed comparison in the source
At(str, i) == IF i \in 1..Len(str) THEN str[i] ELSE ""

NoSlice == [found |-> FALSE, slice |-> <<>>]

Slice(str) == [found |-> TRUE, slice |-> str]

\* str.indexOf(c) + 1 (0: not found)
IndexOf(str, c) ==
  IF \E i \in 1..Len(str) : str[i] = c
    THEN CHOOSE i \in 1..Len(str) : str[i] = c /\ \A j \in 1..(i - 1) : str[j] # c
    ELSE 0

\* the loop of findBalancedJSON (497-526) from index i on
RECURSIVE ScanFrom(_, _, _, _, _, _)
ScanFrom(str, start, i, depth, inString, escapeNext) ==
  IF i > Len(str) THEN NoSlice
  ELSE IF escapeNext THEN ScanFrom(str, start, i + 1, depth, inString, FALSE)
  ELSE IF str[i] = "\\" THEN ScanFrom(str, start, i + 1, depth, inString, TRUE)
  ELSE IF str[i] = "\"" THEN ScanFrom(str, start, i + 1, depth, ~inString, FALSE)
  ELSE IF ~inString /\ str[i] = "{"
    THEN ScanFrom(str, start, i + 1, depth + 1, inString, FALSE)
  ELSE IF ~inString /\ str[i] = "}"
    THEN IF depth - 1 = 0
           THEN Slice(SubSeq(str, start, i))
           ELSE ScanFrom(str, start, i + 1, depth - 1, inString, FALSE)
  ELSE ScanFrom(str, start, i + 1, depth, inString, FALSE)

\* variant: the slice from the first "{" to the last "}"
findBalancedJSONGreedy(str) ==
  LET start == IndexOf(str, "{")
      ends == {i \in 1..Len(str) : str[i] = "}" /\ i > start}
  IN  IF start = 0 \/ ends = {} THEN NoSlice
      ELSE Slice(SubSeq(str, start, CHOOSE i \in ends : \A j \in ends : j <= i))

\* findBalancedJSON (490-529, 1166-1205)
findBalancedJSON(str) ==
  LET start == IndexOf(str, "{")
  IN  IF start = 0 THEN NoSlice ELSE ScanFrom(str, start, start, 0, FALSE, FALSE)

\* cleanedResponse.match(...) of 532: a fence, "{", any characters, "}", a
\* fence; the capture of the leftmost match, taking as much as it can
FenceMatch(str) ==
  LET Ends(i) == {j \in (i + 2)..Len(str) : str[j] = "}" /\ At(str, j + 1) = "f"}
      starts == {i \in 1..Len(str) :
                   str[i] = "f" /\ At(str, i + 1) = "{" /\ Ends(i) # {}}
  IN  IF starts = {} THEN NoSlice
      ELSE LET i == CHOOSE a \in starts : \A b \in starts : a <= b
               j == CHOOSE a \in Ends(i) : \A b \in Ends(i) : b <= a
           IN  Slice(SubSeq(str, i + 1, j))

\* JSON.parse on the texts of this alphabet: the index after the string
\* literal whose opening quote is before i (0: SyntaxError)
RECURSIVE ParseString(_, _)
ParseString(str, i) ==
  IF i > Len(str) THEN 0
  ELSE IF str[i] = "\"" THEN i + 1
  ELSE IF str[i] = "\\"
    THEN IF At(str, i + 1) \in {"\"", "\\"} THEN ParseString(str, i + 2) ELSE 0
  ELSE IF str[i] = "k" THEN 0
  ELSE ParseString(str, i + 1)

\* the index after the JSON value that starts at i (0: SyntaxError)
RECURSIVE ParseValue(_, _)
ParseValue(str, i) ==
  CASE At(str, i) = "\"" -> ParseString(str, i + 1)
    [] At(str, i) = "{" ->
         IF At(str, i + 1) = "}" THEN i + 2
         ELSE IF At(str, i + 1) = "k"
           THEN LET v == ParseValue(str, i + 2)
                IN  IF v # 0 /\ At(str, v) = "}" THEN v + 1 ELSE 0
         ELSE 0
    [] At(str, i) = "[" ->
         IF At(str, i + 1) = "]" THEN i + 2
         ELSE LET v == ParseValue(str, i + 1)
              IN  IF v # 0 /\ At(str, v) = "]" THEN v + 1 ELSE 0
    [] OTHER -> 0

\* JSON.parse(str) returns
JSONParses(str) == ParseValue(str, 1) = Len(str) + 1

NoExtraction == [kind |-> "none", from |-> "none", text |-> <<>>]

\* the catch of 552-562: the extraction failed
ExtractionFailed == [kind |-> "failed", from |-> "none", text |-> <<>>]

\* JSON.parse(str) inside the try of 482-551
ParsedFrom(from, str) ==
  IF JSONParses(str) THEN [kind |-> "parsed", from |-> from, text |-> str]
  ELSE ExtractionFailed

\* 531-545 / 1207-1219: fence, else balanced object, else the entire text
ExtractStructured(text) ==
  LET jsonMatch == FenceMatch(text)
      jsonStr == findBalancedJSON(text)
  IN  IF jsonMatch.found THEN ParsedFrom("fence", jsonMatch.slice)
      ELSE IF jsonStr.found THEN ParsedFrom("balanced", jsonStr.slice)
      ELSE ParsedFrom("whole", text)

ScanChars == {"{", "}", "[", "\"", "\\", "x"}

\* every text of at most MaxLen characters the scan tells apart
ScanTexts == UNION {[1..n -> ScanChars] : n \in 0..MaxLen}

\* fragments of generation texts: objects that parse and that do not, alone
\* and fenced, an array, a string literal, prose
Pieces ==
  {<<"{", "}">>, <<"{", "k", "{", "}", "}">>, <<"{", "x", "}">>,
   <<"f", "{", "}", "f">>, <<"f", "{", "x", "}", "f">>,
   <<"[", "]">>, <<"\"", "{", "\"">>, <<"x">>}

RECURSIVE PieceTexts(_)
PieceTexts(n) ==
  IF n = 0 THEN {<<>>}
  ELSE PieceTexts(n - 1) \cup {t \o p : t \in PieceTexts(n - 1), p \in Pieces}

\* findBalancedJSON(cleanedResponse)
ScanRuns ==
  /\ exPc = "ready"
  /\ exSlice' = findBalancedJSON(exText)
  /\ exPc' = "scanned"
  /\ UNCHANGED <<exText, exResult>>

\* the try / catch of 482-562
ExtractRuns ==
  /\ exPc = "ready"
  /\ exResult' = ExtractStructured(exText)
  /\ exPc' = "extracted"
  /\ UNCHANGED <<exText, exSlice>>

ExtractIdle ==
  /\ exText = <<>>
  /\ exPc = "idle"
  /\ exSlice = NoSlice
  /\ exResult = NoExtraction

ExtractInit ==
  /\ exText \in ScanTexts \cup PieceTexts(MaxPieces)
  /\ exPc = "ready"
  /\ exSlice = NoSlice
  /\ exResult = NoExtraction

----------------------------------------------------------------------------
(* firestore.js: listStudentEvaluations (906-940), as loadHistoricalReport  *)
(* (App.jsx 367-370) calls it, over the submissions of the Java subject's   *)
(* contest.                                                                 *)

\* listSubjects(): the subjects collection
SubjectsCatalog ==
  <<[id |-> "subject1", name |-> "Maths"], [id |-> "subject2", name |-> "Java"]>>

\* s?.name?.toLowerCase() ("undefined": the object has no name)
LowerName(subject) ==
  CASE subject.name = "Java"  -> "java"
    [] subject.name = "Maths" -> "maths"
    [] OTHER                  -> subject.name

IsJavaSubject(subject) == LowerName(subject) = "java"

\* subjectsCatalog.find(s => s?.name?.toLowerCase() === "java").id
JavaSubjectId ==
  LET found == SelectSeq(SubjectsCatalog, IsJavaSubject) IN found[1].id

ReportSubIds == 1..MaxReportSubs

\* a submission document of the contest: its status, whether its studentId is
\* the student asked for, and the number of documents in its evaluations
\* (the latest one has that number)
ReportDocs ==
  [status : {"none", "submitted", "evaluating", "evaluated", "error"},
   mine : BOOLEAN, evals : 0..2]

\* 914-933: the loops over contests and submissions of the subject found
EvaluationsOf(store, subjectId, studentId) ==
  IF subjectId # JavaSubjectId THEN {}
  ELSE {[submissionId |-> s, evaluation |-> store[s].evals] :
          s \in {t \in ReportSubIds :
                   /\ store[t].status = "evaluated"
                   /\ store[t].mine
                   /\ store[t].evals > 0}}

\* listStudentEvaluations(studentId, subjectId = null); "null": not passed
listStudentEvaluations(store, studentId, subjectId) ==
  LET subjects == IF subjectId # "null"
                    THEN <<[id |-> subjectId, name |-> "undefined"]>>
                    ELSE SubjectsCatalog
      found == SelectSeq(subjects, IsJavaSubject)
  IN  IF found = <<>> THEN {}
      ELSE EvaluationsOf(store, found[1].id, studentId)

\* App.jsx 367-370: listStudentEvaluations(studentRecord.id, javaSubject.id)
loadHistoricalReport ==
  /\ rpPc = "ready"
  /\ rpResult' = listStudentEvaluations(rpStore, "student", JavaSubjectId)
  /\ rpPc' = "loaded"
  /\ UNCHANGED rpStore

\* listStudentEvaluations(studentId), the subject left to its default
ListWithoutSubject ==
  /\ rpPc = "ready"
  /\ rpResult' = listStudentEvaluations(rpStore, "student", "null")
  /\ rpPc' = "listed"
  /\ UNCHANGED rpStore

ReportIdle ==
  /\ rpStore = [s \in ReportSubIds |-> [status |-> "none", mine |-> FALSE, evals |-> 0]]
  /\ rpPc = "idle"
  /\ rpResult = {}

ReportInit ==
  /\ rpStore \in [ReportSubIds -> ReportDocs]
  /\ rpPc = "ready"
  /\ rpResult = {}

----------------------------------------------------------------------------
(* The cache of custom Java practice questions: getCachedJavaPractice,     *)
(* setCachedJavaPractice (part_006 52-89) and handleGenerateCustomQuestions, *)
(* handleRefreshCustomPractice (JavaEditor.jsx 230-300).                    *)

\* customPracticeForm: topics as typed ("s": blank) and difficulty
FormTopics == {"arrays", "loops", "s"}

Difficulties == {"easy", "hard"}

\* customPracticeForm.topics.trim() is empty
IsBlankTopics(topics) == topics = "s"

NoParams == [topics |-> "", difficulty |-> ""]

\* no questions: nothing generated yet / nothing in localStorage
NoQuestions == [params |-> NoParams, gen |-> 0]

\* getCachedJavaPractice(params): the stored entry whatever the argument
\* (the function declares no parameter), null when there is none
getCachedJavaPractice(params) == jpCache

\* setCachedJavaPractice(params, questions)
setCachedJavaPractice(params, questions) ==
  jpCache' = [questions |-> questions,
              params |-> [topics |-> params.topics, difficulty |-> params.difficulty]]

NoEntry == [questions |-> NoQuestions, params |-> NoParams]

\* handleGenerateCustomQuestions(forceRefresh): the questions the backend
\* generates are marked with the parameters they were generated for
GenerateCustom(forceRefresh) ==
  /\ jpCalls < MaxGenerates
  /\ jpCalls' = jpCalls + 1
  /\ \E topics \in FormTopics, difficulty \in Difficulties :
       LET params == [topics |-> topics, difficulty |-> difficulty]
           cached == getCachedJavaPractice(params)
       IN  IF IsBlankTopics(topics)
             THEN \* 231-234
                  /\ jpLast' = [params |-> params, from |-> "rejected"]
                  /\ UNCHANGED <<jpCache, jpShown>>
           ELSE IF ~forceRefresh /\ cached # NoEntry
             THEN \* 242-258
                  /\ jpShown' = cached.questions
                  /\ jpLast' = [params |-> params, from |-> "cache"]
                  /\ UNCHANGED jpCache
           ELSE \/ \* 263-282: generateJavaCodingQuestions resolves
                   /\ setCachedJavaPractice(params, [params |-> params, gen |-> jpCalls + 1])
                   /\ jpShown' = [params |-> params, gen |-> jpCalls + 1]
                   /\ jpLast' = [params |-> params, from |-> "backend"]
                \/ \* 283-285: it rejects
                   /\ jpLast' = [params |-> params, from |-> "error"]
                   /\ UNCHANGED <<jpCache, jpShown>>

handleGenerateCustomQuestions == GenerateCustom(FALSE)

\* 292-299: handleGenerateCustomQuestions(true)
handleRefreshCustomPractice == GenerateCustom(TRUE)

CacheInit ==
  /\ jpCache = NoEntry
  /\ jpShown = NoQuestions
  /\ jpLast = [params |-> NoParams, from |-> "none"]
  /\ jpCalls = 0

----------------------------------------------------------------------------
(* Specifications *)

Init ==
  /\ LifeInit
  /\ ApiInit
  /\ EvalIdle
  /\ ScoreIdle
  /\ TopicsInit
  /\ ExtractIdle
  /\ ReportIdle
  /\ CacheInit

\* the submission handlers, the completion client at rest
Next ==
  \/ handleSubmit /\ UNCHANGED notLife
  \/ handleUploadSubmission /\ UNCHANGED notLife
  \/ handleSubmissionsJSONUpload /\ UNCHANGED notLife
  \/ handleEvaluateSubmission /\ UNCHANGED notLife

Spec == Init /\ [][Next]_vars

\* one call of callGeminiAPI, no submission in progress
ApiNext ==
  \/ ApiStart /\ UNCHANGED notApi
  \/ ApiRank /\ UNCHANGED notApi
  \/ ApiAttempt /\ UNCHANGED notApi
  \/ ApiExhausted /\ UNCHANGED notApi

SpecApi == Init /\ [][ApiNext]_vars

\* evaluateCodeSubmission applied to every answer callGeminiAPI can give
EvalNext ==
  \/ EvalReturns /\ UNCHANGED notEval
  \/ EvalCallFails /\ UNCHANGED notEval

InitEval ==
  /\ LifeInit
  /\ ApiInit
  /\ EvalInit
  /\ ScoreIdle
  /\ TopicsInit
  /\ ExtractIdle
  /\ ReportIdle
  /\ CacheInit

SpecEval == InitEval /\ [][EvalNext]_vars

\* score publications, for every content of the marks form
ScoreNext ==
  \/ PublishScore /\ UNCHANGED notScore
  \/ PublishScoreWithoutIds /\ UNCHANGED notScore

InitScore ==
  /\ LifeInit
  /\ ApiInit
  /\ EvalIdle
  /\ ScoreInit
  /\ TopicsInit
  /\ ExtractIdle
  /\ ReportIdle
  /\ CacheInit

SpecScore == InitScore /\ [][ScoreNext]_vars

\* callGeminiAPI with each wait on the network as a step of its own. The
\* statements of the call and its timer are taken when they can be; an answer
\* of the backend may never come.
WaitNext ==
  \/ ApiStart /\ UNCHANGED notApi
  \/ ListingFetch /\ UNCHANGED notApi
  \/ ListingBody /\ UNCHANGED notApi
  \/ CandidateSend /\ UNCHANGED notApi
  \/ FetchDeadline /\ UNCHANGED notApi
  \/ FetchAnswers /\ UNCHANGED notApi
  \/ BodyAnswers /\ UNCHANGED notApi
  \/ ApiExhausted /\ UNCHANGED notApi

SpecWait ==
  /\ Init
  /\ [][WaitNext]_vars
  /\ WF_vars(WaitLocal /\ UNCHANGED notApi)

\* calls of upsertTopicAnalytics for one student and subject, from the two
\* pipelines that can run side by side
TopicsNext ==
  \/ \E c \in Callers : TopicsRead(c) /\ UNCHANGED notTopics
  \/ \E c \in Callers : TopicsWrite(c) /\ UNCHANGED notTopics
  \/ \E c \in Callers : TopicsReturn(c) /\ UNCHANGED notTopics

SpecTopics == Init /\ [][TopicsNext]_vars

\* the extraction applied to every text
ExtractNext ==
  \/ ScanRuns /\ UNCHANGED notExtract
  \/ ExtractRuns /\ UNCHANGED notExtract

InitExtract ==
  /\ LifeInit
  /\ ApiInit
  /\ EvalIdle
  /\ ScoreIdle
  /\ TopicsInit
  /\ ExtractInit
  /\ ReportIdle
  /\ CacheInit

SpecExtract == InitExtract /\ [][ExtractNext]_vars

\* the historical report over every content of the contest's submissions
ReportNext ==
  \/ loadHistoricalReport /\ UNCHANGED notReport
  \/ ListWithoutSubject /\ UNCHANGED notReport

InitReport ==
  /\ LifeInit
  /\ ApiInit
  /\ EvalIdle
  /\ ScoreIdle
  /\ TopicsInit
  /\ ExtractIdle
  /\ ReportInit
  /\ CacheInit

SpecReport == InitReport /\ [][ReportNext]_vars

\* generate and refresh actions on the custom practice form
CacheNext ==
  \/ handleGenerateCustomQuestions /\ UNCHANGED notCache
  \/ handleRefreshCustomPractice /\ UNCHANGED notCache

SpecCache == Init /\ [][CacheNext]_vars

----------------------------------------------------------------------------
(* Claims about the submission lifecycle *)

\* a run that failed after it recorded "evaluating"
FailedAfterEvaluating(p) == caught[p] # "none" /\ Occurs(p, "evaluating")

Before(p, a, b) ==
  \A i \in 1..Len(log[p]) :
    log[p][i] = b => \E j \in 1..(i - 1) : log[p][j] = a

\* no creating handler is in the middle of its run
CreatorsQuiet == \A q \in Creators : pc[q] \in {"idle", "done"}

\* C1: the stored status of a submission never moves to an earlier state of
\* pending < submitted < evaluating < {evaluated, error}, whatever handler
\* acts; stated for the steps taken while no creating handler is in flight,
\* so that a violation is the act of one handler and not of an interleaving.
C1_StatusMonotonic ==
  [][CreatorsQuiet =>
       \A s \in SubIds : Rank(subStatus'[s]) >= Rank(subStatus[s])]_vars

\* C2: once the status of a submission is evaluated or error, no later
\* operation changes it (stated, as C1, for the steps taken while no creating
\* handler is in flight).
C2_TerminalStatuses ==
  [][CreatorsQuiet =>
       \A s \in SubIds :
         subStatus[s] \in {"evaluated", "error"} => subStatus'[s] = subStatus[s]]_vars

\* C3: a run in which a step after the transition to evaluating failed, and
\* whose catch block completed its status write, leaves the submission in
\* error with the failure detail recorded on it (stated for the runs that no
\* re-evaluation interferes with).
C3_FailureRecorded ==
  \A p \in Procs :
    (pc[p] = "done" /\ FailedAfterEvaluating(p) /\ Occurs(p, "error") /\ reevalRuns = 0)
      => (subStatus[cur[p]] = "error" /\ subError[cur[p]] = caught[p])

----------------------------------------------------------------------------
(* Claims about callGeminiAPI *)

\* the step is one iteration of the candidate loop; lastResp' is the answer
\* the candidate gave
Attempted == apiPc = "trying" /\ tried' # tried

Remaining == Len(modelsToTry) - Len(tried)

TokenLimitText == T("Gemini API hit token limit (")

SafetyText == T("Gemini API blocked content due to safety filters. Ratings:")

HasToken(msg, tok) == \E i \in 1..Len(msg) : msg[i] = tok

C5_State ==
  /\ Len(tried) <= Len(modelsToTry)
  /\ \A i \in 1..Len(tried) : tried[i] = modelsToTry[i]
  /\ \A i, j \in 1..Len(tried) : i # j => tried[i] # tried[j]
  /\ outcome.kind = "returned" =>
       /\ lastResp.kind = "ok"
       /\ outcome.text = lastResp.content
       /\ Len(reasons) = Len(tried) - 1

C5_Step ==
  /\ Attempted =>
       /\ tried' = Append(tried, modelsToTry[Len(tried) + 1])
       /\ (lastResp'.kind = "abort" \/ (lastResp'.kind = "http" /\ lastResp'.status = 404))
            => (apiPc' = "trying" /\ idx' = idx + 1 /\ outcome' = outcome)
  /\ apiPc \in {"done", "exhausted"} => tried' = tried

\* C5: the candidates are tried in the ranked order, each at most once; a
\* candidate whose request is aborted at the deadline or answered with HTTP
\* 404 (model unavailable) is followed by the next candidate with no error
\* surfaced; the call returns the text of the first candidate that succeeds,
\* every earlier candidate having failed, and tries no candidate after it.
C5_CandidatesInOrder == [](C5_State) /\ [][C5_Step]_vars

\* C5 witness: three candidates, the first two unavailable, the third's text returned
C5_Witness ==
  /\ outcome.kind = "returned"
  /\ Len(tried) = 3
  /\ Len(reasons) = 2
  /\ \A i \in 1..2 : HasToken(reasons[i], T("not available:"))

\* C6: a candidate's answer with no text and finish reason SAFETY ends the
\* call at once with the safety-filter error, whatever candidates remain.
C6_SafetyFatal ==
  [][(Attempted /\ lastResp'.kind = "ok" /\ lastResp'.finishReason = "SAFETY"
                /\ lastResp'.content \in {"absent", "empty"})
       => /\ apiPc' = "done"
          /\ outcome'.kind = "thrown"
          /\ HasToken(outcome'.error.message, SafetyText)
          /\ idx' = idx]_vars

\* C6 witness: the safety error was thrown by the first candidate with others untried
C6_Witness ==
  /\ apiPc = "done"
  /\ outcome.kind = "thrown"
  /\ HasToken(outcome.error.message, SafetyText)
  /\ lastResp.finishReason = "SAFETY"
  /\ Remaining >= 1

\* C7: a candidate's answer cut off by the token budget (MAX_TOKENS) with no
\* text ends the call with the token-limit error and no other candidate is
\* tried, for every token limit and every reported token count.
C7_TokenLimitFatal ==
  [][(Attempted /\ lastResp'.kind = "ok" /\ lastResp'.finishReason = "MAX_TOKENS"
                /\ lastResp'.content \in {"absent", "empty", "blank"})
       => /\ apiPc' = "done"
          /\ outcome'.kind = "thrown"
          /\ HasToken(outcome'.error.message, TokenLimitText)]_vars

C10_FirstAnswer ==
  [][(Attempted /\ Len(tried) = 0 /\ lastResp'.kind = "ok")
       => IF /\ lastResp'.content \notin {"absent", "empty"}
             /\ (lastResp'.finishReason = "MAX_TOKENS" => lastResp'.content # "blank")
            THEN /\ outcome'.kind = "returned"
                 /\ outcome'.text = lastResp'.content
                 /\ apiPc' = "done"
            ELSE /\ outcome'.kind # "returned"
                 /\ \/ outcome'.kind = "thrown" /\ apiPc' = "done"
                    \/ outcome'.kind = "none" /\ apiPc' = "trying" /\ idx' = idx + 1]_vars

\* C10 witness: the first candidate answered STOP with no text and the call threw
C10_Witness ==
  /\ Len(tried) = 1
  /\ lastResp.kind = "ok"
  /\ lastResp.finishReason = "STOP"
  /\ req.systemPrompt /\ req.userPrompt /\ req.apiKey
  /\ outcome.kind = "thrown"

\* C10 (as claimed): for a request with both prompts and a key whose first
\* candidate answers, the call returns text and does not throw, whatever finish
\* reason and content the answer carries.
C10_NeverThrows ==
  [][(Attempted /\ Len(tried) = 0 /\ lastResp'.kind = "ok")
       => outcome'.kind = "returned"]_vars

----------------------------------------------------------------------------
(* Claims about evaluateCodeSubmission *)

EmptyReport ==
  [strengths |-> Arr("[]"), weaknesses |-> Arr("[]"), suggestions |-> Arr("[]"),
   topicScores |-> Obj("{}"), overallScore |-> Num(50),
   detailedAnalysis |-> ResponseText, practiceQuestions |-> Arr("[]")]

\* C11: when no JSON report can be extracted from the generation text (the
\* text is prose, whitespace, or a fenced block that does not parse),
\* evaluateCodeSubmission does not throw: it returns the report with empty
\* strengths, weaknesses, suggestions and practiceQuestions, empty
\* topicScores, overallScore 50 and detailedAnalysis equal to the raw text.
C11_FallbackReport ==
  (evPc # "ready" /\ evResponse.form \in {"fencedBroken", "prose", "blank"})
    => (evPc = "returned" /\ evReport = EmptyReport)

\* C11 witness: a prose answer was turned into the default report
C11_Witness ==
  evPc = "returned" /\ evResponse.form = "prose" /\ evReport.overallScore = Num(50)

InRange(x, lo, hi) == x.t = "number" /\ x.s # "NaN" /\ x.n >= lo /\ x.n <= hi

\* C12: every report evaluateCodeSubmission returns is fully typed: the four
\* lists are arrays, topicScores is a non-null map, overallScore is a number
\* in [0,100] equal to the backend's overallScore whenever that is a number
\* in [0,100] (0 included), and detailedAnalysis is a string.
C12_FullyTyped ==
  evPc = "returned" =>
    /\ \A f \in {"strengths", "weaknesses", "suggestions", "practiceQuestions"} :
         evReport[f].t = "array"
    /\ evReport.topicScores.t = "object"
    /\ InRange(evReport.overallScore, 0, 100)
    /\ (evResponse.data.kind = "object" /\ InRange(evResponse.data.overallScore, 0, 100))
         => evReport.overallScore = evResponse.data.overallScore
    /\ evReport.detailedAnalysis.t = "string"

----------------------------------------------------------------------------
(* Claims about the subject score *)

\* the call that just ended wrote the score document
Wrote(results, k) == k \in 1..Len(results) /\ results[k] \in {"stored", "getDoc rejected"}

ScorePublished == Wrote(scResult, Len(scResult))

Within(x, lo, hi) == ~x.nan /\ x.h >= lo /\ x.h <= hi

\* C13: for every list of contest entries and every mock score, each
\* normalized entry is in [0,50], contestScaled40 in [0,40], mockScore in
\* [0,60] and total in [0,100] (stated on the document a publication wrote).
C13_ScoresInRange ==
  ScorePublished =>
    /\ \A i \in 1..Len(scDoc.contests) : Within(scDoc.contests[i].normalizedScore, 0, 5000)
    /\ Within(scDoc.contestScaled40, 0, 4000)
    /\ Within(scDoc.mockScore, 0, 6000)
    /\ Within(scDoc.total, 0, 10000)

\* an entry the claimed rule lets participate: both scores are numbers and
\* the maximum is not zero
IsNumber(x) == x.t = "number" /\ x.s # "NaN"

ClaimedParticipant(entry) ==
  IsNumber(entry.rawScore) /\ IsNumber(entry.maxScore) /\ entry.maxScore.n # 0

\* rawScore / maxScore x 50 clamped to [0,50], as a fraction
ClaimedNormalized(entry) ==
  LET r == entry.rawScore.n
      m == entry.maxScore.n
  IN  IF r = 0 \/ (r < 0) # (m < 0) THEN [num |-> 0, den |-> 1]
      ELSE IF r * r >= m * m THEN [num |-> 50, den |-> 1]
      ELSE [num |-> 50 * (IF r < 0 THEN 0 - r ELSE r), den |-> IF m < 0 THEN 0 - m ELSE m]

RECURSIVE ClaimedSum(_)
ClaimedSum(entries) ==
  IF entries = <<>> THEN [num |-> 0, den |-> 1]
  ELSE LET a == ClaimedNormalized(Head(entries))
           b == ClaimedSum(Tail(entries))
       IN  [num |-> a.num * b.den + b.num * a.den, den |-> a.den * b.den]

\* the claimed contestScaled40, in hundredths, rounded to the nearest
ClaimedScaled40(entries) ==
  LET part == SelectSeq(entries, ClaimedParticipant)
      sum == ClaimedSum(part)
      maxPossible == Max(1, Len(part) * 50)
  IN  RoundDiv(sum.num * 4000, sum.den * maxPossible)

\* C14: entries whose rawScore or maxScore is not a number or whose maxScore
\* is zero are excluded; contestScaled40 is the sum of the participating
\* entries' rawScore/maxScore x 50 (each clamped to [0,50]) divided by
\* max(1, count x 50) times 40, and total is min(contestScaled40 + clamped
\* mock, 100) (stated on the document a publication wrote, values compared
\* to the hundredth).
C14_ScoreFormula ==
  ScorePublished =>
    /\ Len(scDoc.contests) = Len(SelectSeq(scArgs.contestEntries, ClaimedParticipant))
    /\ ~scDoc.contestScaled40.nan
    /\ scDoc.contestScaled40.h = ClaimedScaled40(scArgs.contestEntries)
    /\ ~scDoc.mockScore.nan =>
         scDoc.total = Fixed(Min(scDoc.contestScaled40.h + scDoc.mockScore.h, 10000))

\* C15: a publication that is stored leaves contests, contestScaled40,
\* mockScore and total (and the other computed fields) as computed from the
\* inputs of that publication alone, whatever the document held before, and
\* publishing the same inputs again leaves the document as it is.
C15_PublishIdempotent ==
  [][(scCalls' = scCalls + 1 /\ Wrote(scResult', Len(scResult')))
       => /\ scDoc' = ScorePayload(calculateVedamSubjectScore(scArgs.contestEntries,
                                                              scArgs.mockScore))
          /\ ScorePublished => scDoc' = scDoc]_vars

\* C15 witness: the same two entries were published twice over an older document
C15_Witness ==
  /\ Len(scResult) = 2
  /\ Wrote(scResult, 1)
  /\ Wrote(scResult, 2)
  /\ Len(scDoc.contests) = 2
  /\ scDoc.total = Fixed(8900)

----------------------------------------------------------------------------
(* Claims about topic analytics *)

\* caller c completes its setDoc in this step
Stores(c) == taPc[c] = "read" /\ taPc'[c] = "written"

\* the update of the call in progress carries an explicit score for topic t
ExplicitScore(c, t) == taUpd[c][t].has /\ taUpd[c][t].score.t = "number"

C17_NormalizedKeys ==
  \A t1, t2 \in TopicNames :
    (taTopics[t1].present /\ taTopics[t2].present /\ t1 # t2)
      => normalizeTopicName(t1) # normalizeTopicName(t2)

\* C20: once the calls of both pipelines have completed, no update is lost:
\* the contestCount of every topic is the number of completed calls that
\* wrote it (two for a topic both calls wrote).
C20_NoLostUpdate ==
  (\A c \in Callers : taPc[c] = "idle")
    => \A t \in TopicNames : taTopics[t].contestCount = taBumps[t]

----------------------------------------------------------------------------
(* Claims about the submission documents *)

\* C18: from its creation on, a submission document holds the trimmed code
\* that was submitted, unchanged by every status transition, failed
\* evaluations included.
C18_CodeKept ==
  /\ [](\A s \in SubIds :
          subStatus[s] # "none" => \E code \in Codes : subCode[s] = Trim(code))
  /\ [][\A s \in SubIds : subStatus[s] # "none" => subCode'[s] = subCode[s]]_vars

\* C18 witness: an evaluation failed and the submission in error holds the code
C18_Witness ==
  \E s \in SubIds :
    /\ subStatus[s] = "error"
    /\ subError[s] # "none"
    /\ subCode[s] = <<"a">>

\* handler p is between the first and the last step of a run on a submission
Running(p) == pc[p] \notin {"idle", "done"} /\ cur[p] # 0

----------------------------------------------------------------------------
(* Claims about the waits of callGeminiAPI *)

Finished == apiPc \in {"done", "exhausted"}

\* C21: every call of callGeminiAPI that passed validation eventually
\* finishes, by returning or by throwing, even when the backend never
\* answers: each wait on the network (the model listing, the generation
\* request, the reading of a body) is ended by the deadline.
C21_CallFinishes == (apiPc = "listing") ~> Finished

----------------------------------------------------------------------------
(* Claims about truncated answers *)

\* C22: when the answer of a candidate was cut off by the token budget
\* (MAX_TOKENS) and carries text that is not blank, the call returns from that
\* candidate, and what it returns is the text unchanged if the text is valid
\* JSON, and otherwise a prefix of it that is valid JSON or the text with the
\* truncation note appended, whether the text is an object, an array or
\* anything else.
C22_TruncatedText ==
  [][(Attempted /\ lastResp'.kind = "ok" /\ lastResp'.finishReason = "MAX_TOKENS"
                /\ HasText(lastResp'.content))
       => /\ apiPc' = "done"
          /\ outcome'.kind = "returned"
          /\ outcome'.text = lastResp'.content
          /\ IF ParsesAsJSON(lastResp'.content)
               THEN outcome'.form = "whole"
               ELSE outcome'.form \in {"prefix", "annotated"}]_vars

----------------------------------------------------------------------------
(* Claims about model ranking *)

Ranking == apiPc \in {"trying", "done", "exhausted"} /\ modelsToTry # <<>>

ListedNames == [i \in 1..Len(availableModels) |-> StripPrefix(availableModels[i])]

IsPreferred(mn) == InSeq(mn, preferredModels)

IsListedEligible(mn) == InSeq(mn, ListedNames) /\ IsGenerationModel(mn)

IsRemainingEligible(mn) == IsGenerationModel(mn) /\ ~IsPreferred(mn)

\* C23: when the listing names at least one generation-capable model, the
\* candidate list holds every listed generation-capable model exactly once:
\* the ones of the preference list in preference order, then the remaining
\* eligible ones; an embedding model is never a candidate.
C23_EveryEligibleRanked ==
  (Ranking /\ SelectSeq(ListedNames, IsGenerationModel) # <<>>)
    => modelsToTry = SelectSeq(preferredModels, IsListedEligible)
                     \o SelectSeq(ListedNames, IsRemainingEligible)

\* the listing gave no model the ranking can use: the request failed, was
\* answered not OK, named no model, or named no generation-capable model
NothingToRank ==
  \/ listing.kind \in {"rejected", "notok"}
  \/ listing.kind = "ok"
     /\ \A i \in 1..Len(listing.names) : ~IsGenerationModel(StripPrefix(listing.names[i]))

\* C24: ranking always ends with a non-empty candidate list and the call goes
\* on to the generation attempts; when the listing request failed, was
\* answered not OK, named no model or named no eligible model, the candidate
\* list is the fallback list.
C24_State ==
  listing # NoListing
    => /\ modelsToTry # <<>>
       /\ NothingToRank => modelsToTry = fallbackModels

C24_Step == apiPc = "listing" => apiPc' = "trying" /\ outcome' = NoOutcome

C24_RankingFallsBack == [](C24_State) /\ [][C24_Step]_vars

\* C24 witness: the listing named only an embedding model and the first
\* model of the fallback list answered
C24_Witness ==
  /\ listing = [kind |-> "ok", names |-> <<"models/embedding-001">>]
  /\ outcome.kind = "returned"
  /\ tried = <<fallbackModels[1]>>

----------------------------------------------------------------------------
(* Claims about the extraction of a structured response *)

\* the first of fence contents, balanced slice and entire text that parses
FirstThatParses(text) ==
  LET jsonMatch == FenceMatch(text)
      jsonStr == findBalancedJSON(text)
  IN  IF jsonMatch.found /\ JSONParses(jsonMatch.slice)
        THEN [kind |-> "parsed", from |-> "fence", text |-> jsonMatch.slice]
      ELSE IF jsonStr.found /\ JSONParses(jsonStr.slice)
        THEN [kind |-> "parsed", from |-> "balanced", text |-> jsonStr.slice]
      ELSE IF JSONParses(text)
        THEN [kind |-> "parsed", from |-> "whole", text |-> text]
      ELSE ExtractionFailed

\* C25: the extraction parses the contents of the fenced block; when there is
\* no fenced block or its contents do not parse, the brace-balanced slice;
\* when neither gave a value, the entire text; it fails only when all three
\* fail.
C25_FallsThrough ==
  exPc = "extracted" => exResult = FirstThatParses(exText)

\* the character at i directly follows a backslash that is not itself skipped
RECURSIVE Escaped(_, _, _)
Escaped(str, start, i) ==
  i > start /\ str[i - 1] = "\\" /\ ~Escaped(str, start, i - 1)

\* the character at i is read inside a string literal opened at or after start
InString(str, start, i) ==
  Cardinality({j \in start..(i - 1) : str[j] = "\"" /\ ~Escaped(str, start, j)}) % 2 = 1

\* characters of the set among start..i that are neither skipped nor in a string
Counted(str, start, i, chars) ==
  Cardinality({j \in start..i :
                 /\ str[j] \in chars
                 /\ ~Escaped(str, start, j)
                 /\ ~InString(str, start, j)})

\* the slice from the first opening character to the first closing character
\* at which the depth is back to zero
BalancedSlice(str, opening, closing) ==
  LET starts == {i \in 1..Len(str) : str[i] \in opening} IN
  IF starts = {} THEN NoSlice
  ELSE LET start == CHOOSE a \in starts : \A b \in starts : a <= b
           ends == {i \in start..Len(str) :
                      /\ str[i] \in closing
                      /\ ~Escaped(str, start, i)
                      /\ ~InString(str, start, i)
                      /\ Counted(str, start, i, opening)
                           = Counted(str, start, i, closing)}
       IN  IF ends = {} THEN NoSlice
           ELSE Slice(SubSeq(str, start, CHOOSE a \in ends : \A b \in ends : a <= b))

\* C26 (amended): the scan starts at the first "{" and returns the slice that
\* ends where the depth of "{" "}" pairs outside string literals first returns
\* to zero; "[" and "]" are ordinary characters. A character directly after a
\* backslash is skipped, a quote toggles string context, braces in a string
\* literal do not count, and nothing is returned when the depth never returns
\* to zero.
C26_BraceBalanced ==
  exPc = "scanned" => exSlice = BalancedSlice(exText, {"{"}, {"}"})

\* C26 witness: the brace inside the string literal did not end the slice
C26_Witness ==
  /\ exPc = "scanned"
  /\ exText = <<"{", "\"", "}", "\"", "}">>
  /\ exSlice = Slice(exText)

\* C26 (as claimed): the scan starts at the first "{" or "[" and counts the
\* depth of brace and bracket pairs.
C26_BraceOrBracketBalanced ==
  exPc = "scanned" => exSlice = BalancedSlice(exText, {"{", "["}, {"}", "]"})

----------------------------------------------------------------------------
(* Claims about the bulk upload *)

\* the pipeline of the current entry is between createSubmission and its end
BulkBusy == pc["bulk"] \notin {"idle", "item"}

C27_State ==
  /\ pc["bulk"] # "idle" => bulkIdx \in 1..(bulkItems + 1)
  /\ BulkBusy => bulkIdx <= bulkItems

C27_Step ==
  /\ \* the entry changes only to the next one of the file, and only when the
     \* pipeline of the current one is over, whether it succeeded or failed
     (pc["bulk"] # "idle" /\ pc'["bulk"] # "idle" /\ bulkIdx' # bulkIdx)
       => /\ bulkIdx' = bulkIdx + 1
          /\ pc["bulk"] \in {"item", "created", "done"}
          /\ pc'["bulk"] = "item"
  /\ \* a pipeline starts for the current entry only, no other one being open
     (pc'["bulk"] = "created" /\ pc["bulk"] # "created")
       => pc["bulk"] = "item" /\ bulkIdx' = bulkIdx
  /\ \* the upload ends only when every entry was processed
     (pc["bulk"] # "idle" /\ pc'["bulk"] = "idle") => bulkIdx > bulkItems

----------------------------------------------------------------------------
(* Claims about the practice tasks *)

\* C28: in every evaluation pipeline that creates practice tasks, a report
\* with n practice questions gives min(n, 10) tasks, and never more than 10.
C28_AtMostTenTasks ==
  \A p \in Procs :
    Occurs(p, "practice")
      => /\ practice[p].made <= 10
         /\ practice[p].made = Min(practice[p].len, 10)

----------------------------------------------------------------------------
(* Claims about the historical report *)

\* C29: listStudentEvaluations called with the id of the Java subject returns
\* the latest evaluation of every submission of the student whose status is
\* evaluated, and of no other submission.
C29_EvaluatedListed ==
  rpPc = "loaded"
    => rpResult = {[submissionId |-> s, evaluation |-> rpStore[s].evals] :
                     s \in {t \in ReportSubIds :
                              /\ rpStore[t].status = "evaluated"
                              /\ rpStore[t].mine
                              /\ rpStore[t].evals > 0}}

----------------------------------------------------------------------------
(* Claims about the custom practice cache *)

\* C30: questions shown from the cache always match the request: after a
\* generate action served from the cache, the questions on screen were
\* generated for the topics and difficulty just requested.
C30_CacheMatchesRequest ==
  jpLast.from = "cache" => jpShown.params = jpLast.params

====
